---- MODULE Spec2Model ----
(***************************************************************************)
(* Deadline-notification bot (src/bot.py and src/main.py).                 *)
(*                                                                         *)
(* The repository holds two copies of the program.  The variable `variant` *)
(* says which copy runs ("bot" = src/bot.py, "main" = src/main.py); every  *)
(* operator that differs between the copies branches on it.                *)
(*                                                                         *)
(* Text is modelled as a sequence of one-character strings so that         *)
(* Python's substring test, strip() and strptime() can be computed.        *)
(* The Japanese literals of the source are written with one ASCII letter   *)
(* per character:  S=作 G=業 C=中 Y=優 P=先 T=止 ; hence                 *)
(*   作業中 = <<"S","G","C">>     優先作業 = <<"Y","P","S","G">>           *)
(***************************************************************************)
EXTENDS Integers, Sequences, FiniteSets, TLC

(***************************************************************************)
(* Text helpers                                                            *)
(***************************************************************************)

\* Python: `name in cell` for str operands (the empty string is in every string)
IsSubstring(n, c) ==
    \E i \in 0..(Len(c) - Len(n)) : SubSeq(c, i + 1, i + Len(n)) = n

\* the characters str.strip() removes (str.isspace): blank, tab, line feed,
\* carriage return, form feed, and, written by their code points, the other
\* ones, which a TLA+ string cannot hold
Whitespace ==
    {" ", "\t", "\n", "\r", "\f", "U+000B", "U+001C", "U+001D", "U+001E",
     "U+001F", "U+0085", "U+00A0", "U+1680", "U+2000", "U+2001", "U+2002",
     "U+2003", "U+2004", "U+2005", "U+2006", "U+2007", "U+2008", "U+2009",
     "U+200A", "U+2028", "U+2029", "U+202F", "U+205F", "U+3000"}

RECURSIVE LStrip(_)
LStrip(s) == IF s = <<>> THEN s
             ELSE IF s[1] \in Whitespace THEN LStrip(Tail(s)) ELSE s

RECURSIVE RStrip(_)
RStrip(s) == IF s = <<>> THEN s
             ELSE IF s[Len(s)] \in Whitespace
                  THEN RStrip(SubSeq(s, 1, Len(s) - 1)) ELSE s

\* Python: str.strip()
Strip(s) == RStrip(LStrip(s))

DigitChars == <<"0", "1", "2", "3", "4", "5", "6", "7", "8", "9">>

\* [0-9] of a regular expression
IsAsciiDigit(c) == \E d \in 1..10 : DigitChars[d] = c

\* The other decimal digits of Unicode (category Nd), written by their code
\* points: each row holds the digits zero to nine of one script.
OtherDigits ==
    <<
       <<"U+0660", "U+0661", "U+0662", "U+0663", "U+0664",
         "U+0665", "U+0666", "U+0667", "U+0668", "U+0669">>,
       <<"U+06F0", "U+06F1", "U+06F2", "U+06F3", "U+06F4",
         "U+06F5", "U+06F6", "U+06F7", "U+06F8", "U+06F9">>,
       <<"U+07C0", "U+07C1", "U+07C2", "U+07C3", "U+07C4",
         "U+07C5", "U+07C6", "U+07C7", "U+07C8", "U+07C9">>,
       <<"U+0966", "U+0967", "U+0968", "U+0969", "U+096A",
         "U+096B", "U+096C", "U+096D", "U+096E", "U+096F">>,
       <<"U+09E6", "U+09E7", "U+09E8", "U+09E9", "U+09EA",
         "U+09EB", "U+09EC", "U+09ED", "U+09EE", "U+09EF">>,
       <<"U+0A66", "U+0A67", "U+0A68", "U+0A69", "U+0A6A",
         "U+0A6B", "U+0A6C", "U+0A6D", "U+0A6E", "U+0A6F">>,
       <<"U+0AE6", "U+0AE7", "U+0AE8", "U+0AE9", "U+0AEA",
         "U+0AEB", "U+0AEC", "U+0AED", "U+0AEE", "U+0AEF">>,
       <<"U+0B66", "U+0B67", "U+0B68", "U+0B69", "U+0B6A",
         "U+0B6B", "U+0B6C", "U+0B6D", "U+0B6E", "U+0B6F">>,
       <<"U+0BE6", "U+0BE7", "U+0BE8", "U+0BE9", "U+0BEA",
         "U+0BEB", "U+0BEC", "U+0BED", "U+0BEE", "U+0BEF">>,
       <<"U+0C66", "U+0C67", "U+0C68", "U+0C69", "U+0C6A",
         "U+0C6B", "U+0C6C", "U+0C6D", "U+0C6E", "U+0C6F">>,
       <<"U+0CE6", "U+0CE7", "U+0CE8", "U+0CE9", "U+0CEA",
         "U+0CEB", "U+0CEC", "U+0CED", "U+0CEE", "U+0CEF">>,
       <<"U+0D66", "U+0D67", "U+0D68", "U+0D69", "U+0D6A",
         "U+0D6B", "U+0D6C", "U+0D6D", "U+0D6E", "U+0D6F">>,
       <<"U+0DE6", "U+0DE7", "U+0DE8", "U+0DE9", "U+0DEA",
         "U+0DEB", "U+0DEC", "U+0DED", "U+0DEE", "U+0DEF">>,
       <<"U+0E50", "U+0E51", "U+0E52", "U+0E53", "U+0E54",
         "U+0E55", "U+0E56", "U+0E57", "U+0E58", "U+0E59">>,
       <<"U+0ED0", "U+0ED1", "U+0ED2", "U+0ED3", "U+0ED4",
         "U+0ED5", "U+0ED6", "U+0ED7", "U+0ED8", "U+0ED9">>,
       <<"U+0F20", "U+0F21", "U+0F22", "U+0F23", "U+0F24",
         "U+0F25", "U+0F26", "U+0F27", "U+0F28", "U+0F29">>,
       <<"U+1040", "U+1041", "U+1042", "U+1043", "U+1044",
         "U+1045", "U+1046", "U+1047", "U+1048", "U+1049">>,
       <<"U+1090", "U+1091", "U+1092", "U+1093", "U+1094",
         "U+1095", "U+1096", "U+1097", "U+1098", "U+1099">>,
       <<"U+17E0", "U+17E1", "U+17E2", "U+17E3", "U+17E4",
         "U+17E5", "U+17E6", "U+17E7", "U+17E8", "U+17E9">>,
       <<"U+1810", "U+1811", "U+1812", "U+1813", "U+1814",
         "U+1815", "U+1816", "U+1817", "U+1818", "U+1819">>,
       <<"U+1946", "U+1947", "U+1948", "U+1949", "U+194A",
         "U+194B", "U+194C", "U+194D", "U+194E", "U+194F">>,
       <<"U+19D0", "U+19D1", "U+19D2", "U+19D3", "U+19D4",
         "U+19D5", "U+19D6", "U+19D7", "U+19D8", "U+19D9">>,
       <<"U+1A80", "U+1A81", "U+1A82", "U+1A83", "U+1A84",
         "U+1A85", "U+1A86", "U+1A87", "U+1A88", "U+1A89">>,
       <<"U+1A90", "U+1A91", "U+1A92", "U+1A93", "U+1A94",
         "U+1A95", "U+1A96", "U+1A97", "U+1A98", "U+1A99">>,
       <<"U+1B50", "U+1B51", "U+1B52", "U+1B53", "U+1B54",
         "U+1B55", "U+1B56", "U+1B57", "U+1B58", "U+1B59">>,
       <<"U+1BB0", "U+1BB1", "U+1BB2", "U+1BB3", "U+1BB4",
         "U+1BB5", "U+1BB6", "U+1BB7", "U+1BB8", "U+1BB9">>,
       <<"U+1C40", "U+1C41", "U+1C42", "U+1C43", "U+1C44",
         "U+1C45", "U+1C46", "U+1C47", "U+1C48", "U+1C49">>,
       <<"U+1C50", "U+1C51", "U+1C52", "U+1C53", "U+1C54",
         "U+1C55", "U+1C56", "U+1C57", "U+1C58", "U+1C59">>,
       <<"U+A620", "U+A621", "U+A622", "U+A623", "U+A624",
         "U+A625", "U+A626", "U+A627", "U+A628", "U+A629">>,
       <<"U+A8D0", "U+A8D1", "U+A8D2", "U+A8D3", "U+A8D4",
         "U+A8D5", "U+A8D6", "U+A8D7", "U+A8D8", "U+A8D9">>,
       <<"U+A900", "U+A901", "U+A902", "U+A903", "U+A904",
         "U+A905", "U+A906", "U+A907", "U+A908", "U+A909">>,
       <<"U+A9D0", "U+A9D1", "U+A9D2", "U+A9D3", "U+A9D4",
         "U+A9D5", "U+A9D6", "U+A9D7", "U+A9D8", "U+A9D9">>,
       <<"U+A9F0", "U+A9F1", "U+A9F2", "U+A9F3", "U+A9F4",
         "U+A9F5", "U+A9F6", "U+A9F7", "U+A9F8", "U+A9F9">>,
       <<"U+AA50", "U+AA51", "U+AA52", "U+AA53", "U+AA54",
         "U+AA55", "U+AA56", "U+AA57", "U+AA58", "U+AA59">>,
       <<"U+ABF0", "U+ABF1", "U+ABF2", "U+ABF3", "U+ABF4",
         "U+ABF5", "U+ABF6", "U+ABF7", "U+ABF8", "U+ABF9">>,
       <<"U+FF10", "U+FF11", "U+FF12", "U+FF13", "U+FF14",
         "U+FF15", "U+FF16", "U+FF17", "U+FF18", "U+FF19">>,
       <<"U+104A0", "U+104A1", "U+104A2", "U+104A3", "U+104A4",
         "U+104A5", "U+104A6", "U+104A7", "U+104A8", "U+104A9">>,
       <<"U+10D30", "U+10D31", "U+10D32", "U+10D33", "U+10D34",
         "U+10D35", "U+10D36", "U+10D37", "U+10D38", "U+10D39">>,
       <<"U+11066", "U+11067", "U+11068", "U+11069", "U+1106A",
         "U+1106B", "U+1106C", "U+1106D", "U+1106E", "U+1106F">>,
       <<"U+110F0", "U+110F1", "U+110F2", "U+110F3", "U+110F4",
         "U+110F5", "U+110F6", "U+110F7", "U+110F8", "U+110F9">>,
       <<"U+11136", "U+11137", "U+11138", "U+11139", "U+1113A",
         "U+1113B", "U+1113C", "U+1113D", "U+1113E", "U+1113F">>,
       <<"U+111D0", "U+111D1", "U+111D2", "U+111D3", "U+111D4",
         "U+111D5", "U+111D6", "U+111D7", "U+111D8", "U+111D9">>,
       <<"U+112F0", "U+112F1", "U+112F2", "U+112F3", "U+112F4",
         "U+112F5", "U+112F6", "U+112F7", "U+112F8", "U+112F9">>,
       <<"U+11450", "U+11451", "U+11452", "U+11453", "U+11454",
         "U+11455", "U+11456", "U+11457", "U+11458", "U+11459">>,
       <<"U+114D0", "U+114D1", "U+114D2", "U+114D3", "U+114D4",
         "U+114D5", "U+114D6", "U+114D7", "U+114D8", "U+114D9">>,
       <<"U+11650", "U+11651", "U+11652", "U+11653", "U+11654",
         "U+11655", "U+11656", "U+11657", "U+11658", "U+11659">>,
       <<"U+116C0", "U+116C1", "U+116C2", "U+116C3", "U+116C4",
         "U+116C5", "U+116C6", "U+116C7", "U+116C8", "U+116C9">>,
       <<"U+11730", "U+11731", "U+11732", "U+11733", "U+11734",
         "U+11735", "U+11736", "U+11737", "U+11738", "U+11739">>,
       <<"U+118E0", "U+118E1", "U+118E2", "U+118E3", "U+118E4",
         "U+118E5", "U+118E6", "U+118E7", "U+118E8", "U+118E9">>,
       <<"U+11950", "U+11951", "U+11952", "U+11953", "U+11954",
         "U+11955", "U+11956", "U+11957", "U+11958", "U+11959">>,
       <<"U+11C50", "U+11C51", "U+11C52", "U+11C53", "U+11C54",
         "U+11C55", "U+11C56", "U+11C57", "U+11C58", "U+11C59">>,
       <<"U+11D50", "U+11D51", "U+11D52", "U+11D53", "U+11D54",
         "U+11D55", "U+11D56", "U+11D57", "U+11D58", "U+11D59">>,
       <<"U+11DA0", "U+11DA1", "U+11DA2", "U+11DA3", "U+11DA4",
         "U+11DA5", "U+11DA6", "U+11DA7", "U+11DA8", "U+11DA9">>,
       <<"U+16A60", "U+16A61", "U+16A62", "U+16A63", "U+16A64",
         "U+16A65", "U+16A66", "U+16A67", "U+16A68", "U+16A69">>,
       <<"U+16AC0", "U+16AC1", "U+16AC2", "U+16AC3", "U+16AC4",
         "U+16AC5", "U+16AC6", "U+16AC7", "U+16AC8", "U+16AC9">>,
       <<"U+16B50", "U+16B51", "U+16B52", "U+16B53", "U+16B54",
         "U+16B55", "U+16B56", "U+16B57", "U+16B58", "U+16B59">>,
       <<"U+1D7CE", "U+1D7CF", "U+1D7D0", "U+1D7D1", "U+1D7D2",
         "U+1D7D3", "U+1D7D4", "U+1D7D5", "U+1D7D6", "U+1D7D7">>,
       <<"U+1D7D8", "U+1D7D9", "U+1D7DA", "U+1D7DB", "U+1D7DC",
         "U+1D7DD", "U+1D7DE", "U+1D7DF", "U+1D7E0", "U+1D7E1">>,
       <<"U+1D7E2", "U+1D7E3", "U+1D7E4", "U+1D7E5", "U+1D7E6",
         "U+1D7E7", "U+1D7E8", "U+1D7E9", "U+1D7EA", "U+1D7EB">>,
       <<"U+1D7EC", "U+1D7ED", "U+1D7EE", "U+1D7EF", "U+1D7F0",
         "U+1D7F1", "U+1D7F2", "U+1D7F3", "U+1D7F4", "U+1D7F5">>,
       <<"U+1D7F6", "U+1D7F7", "U+1D7F8", "U+1D7F9", "U+1D7FA",
         "U+1D7FB", "U+1D7FC", "U+1D7FD", "U+1D7FE", "U+1D7FF">>,
       <<"U+1E140", "U+1E141", "U+1E142", "U+1E143", "U+1E144",
         "U+1E145", "U+1E146", "U+1E147", "U+1E148", "U+1E149">>,
       <<"U+1E2F0", "U+1E2F1", "U+1E2F2", "U+1E2F3", "U+1E2F4",
         "U+1E2F5", "U+1E2F6", "U+1E2F7", "U+1E2F8", "U+1E2F9">>,
       <<"U+1E950", "U+1E951", "U+1E952", "U+1E953", "U+1E954",
         "U+1E955", "U+1E956", "U+1E957", "U+1E958", "U+1E959">>,
       <<"U+1FBF0", "U+1FBF1", "U+1FBF2", "U+1FBF3", "U+1FBF4",
         "U+1FBF5", "U+1FBF6", "U+1FBF7", "U+1FBF8", "U+1FBF9">>
    >>

\* the value of each Unicode decimal digit
DigitValues ==
    [c \in {DigitChars[d] : d \in 1..10}
              \cup UNION {{OtherDigits[r][d] : d \in 1..10} :
                             r \in 1..Len(OtherDigits)} |->
        IF IsAsciiDigit(c)
        THEN (CHOOSE d \in 1..10 : DigitChars[d] = c) - 1
        ELSE (CHOOSE d \in 1..10 :
                 \E r \in 1..Len(OtherDigits) : OtherDigits[r][d] = c) - 1]

\* \d of a regular expression on str: every Unicode decimal digit
IsDigit(c) == c \in DOMAIN DigitValues

\* int(c) of one decimal digit
DigitVal(c) == DigitValues[c]

RECURSIVE NumVal(_)
NumVal(s) == IF s = <<>> THEN 0
             ELSE 10 * NumVal(SubSeq(s, 1, Len(s) - 1)) + DigitVal(s[Len(s)])

\* zero-padded decimal of n on w characters (format spec 0wd)
RECURSIVE Pad(_, _)
Pad(n, w) == IF w = 0 THEN <<>>
             ELSE Pad(n \div 10, w - 1) \o <<DigitChars[(n % 10) + 1]>>

(***************************************************************************)
(* Calendar (datetime.date): proleptic Gregorian ordinals, 1 = 0001-01-01  *)
(***************************************************************************)

IsLeap(y) == (y % 4 = 0) /\ ((y % 100 # 0) \/ (y % 400 = 0))

DaysInMonth(y, m) ==
    IF m = 2 THEN (IF IsLeap(y) THEN 29 ELSE 28)
    ELSE IF m \in {4, 6, 9, 11} THEN 30 ELSE 31

DaysBeforeYear(y) ==
    LET p == y - 1 IN p * 365 + (p \div 4) - (p \div 100) + (p \div 400)

RECURSIVE DaysBeforeMonth(_, _)
DaysBeforeMonth(y, m) ==
    IF m = 1 THEN 0 ELSE DaysBeforeMonth(y, m - 1) + DaysInMonth(y, m - 1)

\* date(y, m, d).toordinal()
ToOrdinal(y, m, d) == DaysBeforeYear(y) + DaysBeforeMonth(y, m) + d

\* date.fromordinal(n) as a record (CPython's _ord2ymd)
FromOrdinal(n) ==
    LET n0   == n - 1
        n400 == n0 \div 146097
        r400 == n0 % 146097
        n100 == r400 \div 36524
        r100 == r400 % 36524
        n4   == r100 \div 1461
        r4   == r100 % 1461
        n1   == r4 \div 365
        r1   == r4 % 365
        y0   == n400 * 400 + n100 * 100 + n4 * 4 + n1 + 1
    IN  IF n1 = 4 \/ n100 = 4
        THEN [y |-> y0 - 1, m |-> 12, d |-> 31]
        ELSE LET mm == CHOOSE m \in 1..12 :
                          /\ DaysBeforeMonth(y0, m) <= r1
                          /\ r1 < DaysBeforeMonth(y0, m) + DaysInMonth(y0, m)
             IN  [y |-> y0, m |-> mm, d |-> r1 - DaysBeforeMonth(y0, mm) + 1]

\* date.isoformat(): YYYY-MM-DD
IsoFormat(n) ==
    LET c == FromOrdinal(n)
    IN  Pad(c.y, 4) \o <<"-">> \o Pad(c.m, 2) \o <<"-">> \o Pad(c.d, 2)

\* strptime directive %m : 1[0-2] | 0[1-9] | [1-9]
MonthField(f) ==
    /\ Len(f) \in {1, 2}
    /\ \A i \in 1..Len(f) : IsAsciiDigit(f[i])
    /\ NumVal(f) \in 1..12

\* strptime directive %d : 3[01] | [12]\d | 0[1-9] | [1-9] | " "[1-9]
DayField(f) ==
    \/ /\ Len(f) = 2
       /\ f[1] = "3"
       /\ f[2] \in {"0", "1"}
    \/ /\ Len(f) = 2
       /\ f[1] \in {"1", "2"}
       /\ IsDigit(f[2])
    \/ /\ Len(f) = 2
       /\ f[1] \in {"0", " "}
       /\ IsAsciiDigit(f[2])
       /\ f[2] # "0"
    \/ /\ Len(f) = 1
       /\ IsAsciiDigit(f[1])
       /\ f[1] # "0"

DayVal(f) == IF f[1] = " " THEN NumVal(<<f[2]>>) ELSE NumVal(f)

\* position of the "/" that ends the month field of s, 0 when there is none
SecondSlash(s) ==
    IF \E j \in 6..Len(s) : s[j] = "/"
    THEN CHOOSE j \in 6..Len(s) :
            /\ s[j] = "/"
            /\ \A k \in 6..(j - 1) : s[k] # "/"
    ELSE 0

\* datetime.strptime(s, "%Y/%m/%d") raises no ValueError:
\* the whole of s matches \d\d\d\d/%m/%d and the fields name a real date.
\* \d takes every Unicode decimal digit, [0-9] and the like only ASCII.
Parses(s) ==
    /\ Len(s) >= 8
    /\ \A i \in 1..4 : IsDigit(s[i])
    /\ s[5] = "/"
    /\ SecondSlash(s) # 0
    /\ LET j == SecondSlash(s)
           mf == SubSeq(s, 6, j - 1)
           df == SubSeq(s, j + 1, Len(s))
       IN  /\ MonthField(mf)
           /\ df # <<>>
           /\ DayField(df)
           /\ NumVal(SubSeq(s, 1, 4)) >= 1
           /\ DayVal(df) <= DaysInMonth(NumVal(SubSeq(s, 1, 4)), NumVal(mf))

\* datetime.strptime(s, "%Y/%m/%d").date() of a string that parses
ParseDate(s) ==
    LET j == SecondSlash(s)
    IN  [y |-> NumVal(SubSeq(s, 1, 4)),
         m |-> NumVal(SubSeq(s, 6, j - 1)),
         d |-> DayVal(SubSeq(s, j + 1, Len(s)))]

TargetOrdinal(s) == LET c == ParseDate(s) IN ToOrdinal(c.y, c.m, c.d)

(***************************************************************************)
(* Python dict: insertion-ordered, modelled as a sequence of <<key, value>>*)
(***************************************************************************)

\* k in d, for a dict d
DictHas(d, k) == \E i \in 1..Len(d) : Len(d[i]) = 2 /\ d[i][1] = k

DictIdx(d, k) == CHOOSE i \in 1..Len(d) : d[i][1] = k

DictGet(d, k) == d[DictIdx(d, k)][2]

DictKeys(d) == {d[i][1] : i \in {j \in 1..Len(d) : Len(d[j]) = 2}}

\* d[k] = v
DictSet(d, k, v) ==
    IF DictHas(d, k)
    THEN [d EXCEPT ![DictIdx(d, k)] = <<k, v>>]
    ELSE Append(d, <<k, v>>)

\* del d[k]
DictDel(d, k) ==
    LET i == DictIdx(d, k)
    IN  SubSeq(d, 1, i - 1) \o SubSeq(d, i + 1, Len(d))

\* x in list
InList(x, l) == \E i \in 1..Len(l) : l[i] = x

\* list.remove(x): removes the first occurrence
ListRemove(l, x) ==
    LET i == CHOOSE j \in 1..Len(l) : l[j] = x /\ \A k \in 1..(j - 1) : l[k] # x
    IN  SubSeq(l, 1, i - 1) \o SubSeq(l, i + 1, Len(l))

(***************************************************************************)
(* Program constants                                                       *)
(***************************************************************************)

DATA_FILE == "charter_users.json"

NOTIFY_FILE == "sent_notifications.json"

DATA_TMP == "charter_users.json.tmp"

NOTIFY_TMP == "sent_notifications.json.tmp"

\* temp_path = path + ".tmp"
TmpPath(path) == IF path = DATA_FILE THEN DATA_TMP ELSE NOTIFY_TMP

Paths == {DATA_FILE, NOTIFY_FILE, DATA_TMP, NOTIFY_TMP}

\* 作業中 , 優先作業
InProgress == {<<"S", "G", "C">>, <<"Y", "P", "S", "G">>}

DIFFS == <<"Sp", "Sm", "Am", "Wt">>

week3 == <<"w", "e", "e", "k", "3">>

week2 == <<"w", "e", "e", "k", "2">>

\* for days, tag in ((21,"week3"), (14,"week2"))
LEADS == <<[days |-> 21, tag |-> week3], [days |-> 14, tag |-> week2]>>

\* bot.py: if target.year < 1971: continue
MinYear == 1971

(***************************************************************************)
(* JSON text and files.  A file's text is a sequence of tokens; json.dump  *)
(* of a dict writes "{", one token per item in dict order, then "}".       *)
(* A value that json.loads returns is a dict (a sequence of <<key, value>> *)
(* pairs) or, for JSON text that is valid but no object, NonObject(kind,   *)
(* items): a one-element sequence holding the triple <<kind, items, <<>>>>.*)
(*   kind "null", "true", "false":  items = <<>>                           *)
(*   kind "number":  items = <<the characters of its JSON text>>           *)
(*   kind "string":  items = <<the characters of the string>>              *)
(*   kind "list":    items = the elements as json.loads returns them: a    *)
(*                   string is <<"string", its characters>>, a number is   *)
(*                   <<"number", the characters of its JSON text>>         *)
(***************************************************************************)

LB == [t |-> "{", k |-> <<>>, v |-> <<>>]

RB == [t |-> "}", k |-> <<>>, v |-> <<>>]

\* text that is no JSON
JUNK == [t |-> "junk", k |-> <<>>, v |-> <<>>]

\* JSON whitespace
SP == [t |-> "space", k |-> <<>>, v |-> <<>>]

\* bytes that are no UTF-8: f.read() raises UnicodeDecodeError
BYTES == [t |-> "bytes", k |-> <<>>, v |-> <<>>]

\* brackets nested beyond the interpreter's recursion limit:
\* json.loads raises RecursionError
DEEP == [t |-> "deep", k |-> <<>>, v |-> <<>>]

Item(k, v) == [t |-> "item", k |-> k, v |-> v]

\* a complete JSON value that is no object: null, 123, "abc", [1], ...
Lit(kind, items) == [t |-> "lit", k |-> <<kind>>, v |-> items]

\* None, True, 123, "abc", [1] as json.loads returns them
NonObject(kind, items) == << <<kind, items, <<>>>> >>

\* isinstance(x, dict)
IsDict(x) == \A i \in 1..Len(x) : Len(x[i]) = 2

\* testing `key in x` raises TypeError: None, booleans and numbers
NotIterable(x) == ~IsDict(x) /\ x[1][1] \notin {"list", "string"}

\* `key in x` for a str key and a list or a str x: an element equal to key,
\* or key a substring of x
Contains(x, key) ==
    IF x[1][1] = "list" THEN InList(<<"string", key>>, x[1][2])
    ELSE IsSubstring(key, x[1][2][1])

\* `key in x` of a dict, a list or a str
KeyIn(key, x) == IF IsDict(x) THEN DictHas(x, key) ELSE Contains(x, key)

\* json.dump(data, f, ensure_ascii=False, indent=2)
Dumps(data) ==
    IF IsDict(data)
    THEN <<LB>> \o [i \in 1..Len(data) |-> Item(data[i][1], data[i][2])]
              \o <<RB>>
    ELSE <<Lit(data[1][1], data[1][2])>>

\* the text is one JSON object
IsJson(text) ==
    /\ Len(text) >= 2
    /\ text[1] = LB
    /\ text[Len(text)] = RB
    /\ \A i \in 2..(Len(text) - 1) : text[i].t = "item"

\* content.strip() ; the parser skips the whitespace that remains inside
RECURSIVE Squeeze(_)
Squeeze(text) ==
    IF text = <<>> THEN text
    ELSE IF text[1] = SP THEN Squeeze(Tail(text))
    ELSE <<text[1]>> \o Squeeze(Tail(text))

\* what `f.read().strip()` followed by json.loads makes of a file's text:
\*   "undecodable"  f.read() raises UnicodeDecodeError (a ValueError)
\*   "empty"        nothing but whitespace
\*   "deep"         json.loads raises RecursionError
\*   "object"       json.loads returns a dict
\*   "literal"      json.loads returns None, a boolean, a number, a str, a list
\*   "junk"         json.loads raises JSONDecodeError
Outcome(text) ==
    LET c == Squeeze(text)
    IN  IF \E i \in 1..Len(text) : text[i] = BYTES THEN "undecodable"
        ELSE IF c = <<>> THEN "empty"
        ELSE IF c[1] = DEEP THEN "deep"
        ELSE IF IsJson(c) THEN "object"
        ELSE IF Len(c) = 1 /\ c[1].t = "lit" THEN "literal"
        ELSE "junk"

\* the file's content is not valid JSON
InvalidJson(text) == Outcome(text) \notin {"object", "literal"}

RECURSIVE ItemsToDict(_, _)
ItemsToDict(items, acc) ==
    IF items = <<>> THEN acc
    ELSE ItemsToDict(Tail(items), DictSet(acc, items[1].k, items[1].v))

\* json.loads(content) of valid text: a later duplicate key replaces the
\* value; text that is no object gives the value it denotes
Loads(text) ==
    LET c == Squeeze(text)
    IN  IF IsJson(c) THEN ItemsToDict(SubSeq(c, 2, Len(c) - 1), <<>>)
        ELSE NonObject(c[1].k[1], c[1].v)

Absent == [exists |-> FALSE, text |-> <<>>]

FileOf(text) == [exists |-> TRUE, text |-> text]

\* save_json(path, data) that runs to its end.
\* bot.py writes path + ".tmp" and os.replace()s it over path;
\* main.py opens path itself with mode "w" and dumps into it.
SaveJson(v, d, path, data) ==
    IF v = "bot"
    THEN [d EXCEPT ![path] = FileOf(Dumps(data)), ![TmpPath(path)] = Absent]
    ELSE [d EXCEPT ![path] = FileOf(Dumps(data))]

\* save_json(path, data) cut short by the death of the process after n
\* tokens reached the file being written (n = 0: the file was just opened).
\* bot.py dies before os.replace: only the temp file holds the n tokens,
\* all of them when it dies between the end of the with block and
\* os.replace.
\* main.py: open(path, "w") has truncated path, which holds the n tokens.
CrashedSave(v, d, path, data, n) ==
    IF v = "bot"
    THEN [d EXCEPT ![TmpPath(path)] = FileOf(SubSeq(Dumps(data), 1, n))]
    ELSE [d EXCEPT ![path] = FileOf(SubSeq(Dumps(data), 1, n))]

\* load_json(path, default) with default = {} ; the result carries the value
\* returned, the disk afterwards, the paths written and whether it raised.
\*   no file, empty content, JSONDecodeError:
\*       bot.py saves the default and returns it, main.py returns it
\*   UnicodeDecodeError: both return the default and write nothing
\*       (bot.py: except Exception ; main.py: it is a ValueError)
\*   RecursionError: bot.py returns the default and writes nothing,
\*       main.py catches only ValueError and lets it out
\*   otherwise: whatever json.loads returns, dict or not
LoadJson(v, d, path) ==
    LET f == d[path]
        o == IF f.exists THEN Outcome(f.text) ELSE "absent"
        asis == [value |-> <<>>, disk |-> d, wrote |-> {}, raised |-> FALSE]
    IN  IF o \in {"object", "literal"}
        THEN [value |-> Loads(f.text), disk |-> d, wrote |-> {},
              raised |-> FALSE]
        ELSE IF o = "undecodable" THEN asis
        ELSE IF o = "deep" THEN [asis EXCEPT !.raised = (v = "main")]
        ELSE IF v = "bot"
             THEN [value |-> <<>>, disk |-> SaveJson(v, d, path, <<>>),
                   wrote |-> {path}, raised |-> FALSE]
             ELSE asis

\* what a reader of the file obtains (load_json's value)
ReadFile(v, d, path) == LoadJson(v, d, path).value

(***************************************************************************)
(* Bounds and input pools                                                  *)
(***************************************************************************)

\* number of clock days after the first one
MaxDay == 1

\* rows in one fetched sheet
MaxRows == 2

\* process deaths in one behaviour of SpecCrash
MaxCrashes == 2

\* rows in the sheet of SpecCrash
MaxCrashRows == 2

\* the first day of every behaviour: 2025-02-08 (UTC)
Day0 == ToOrdinal(2025, 2, 8)

veal == <<"v", "e", "a", "l">>

ve == <<"v", "e">>

NAMES == {veal, ve}

UIDS == {111, 222}

\* guilds that exist; GUILD_IDS (configuration) is a subset
AllGuilds == {1, 2}

Row(title, status, date, sp, sm, am, wt) ==
    [dict |-> TRUE, title |-> title, status |-> status, date |-> date,
     Sp |-> sp, Sm |-> sm, Am |-> am, Wt |-> wt]

TA == <<"A">>

TB == <<"B">>

D_0301 == <<"2", "0", "2", "5", "/", "0", "3", "/", "0", "1">>

\* 2025/2/23 with a full-width 5 and a full-width 3
D_0223 == <<"2", "0", "2", "U+FF15", "/", "2", "/", "2", "U+FF13">>

D_0230 == <<"2", "0", "2", "5", "/", "0", "2", "/", "3", "0">>

\* datetime.min
D_OLD == <<"0", "0", "0", "1", "/", "0", "1", "/", "0", "1">>

WIP == <<"S", "G", "C">>

\* 優先作業 as the sheet may hold it, with a tab before and a blank after
PRIO == <<"\t", "Y", "P", "S", "G", " ">>

\* 作業中止 : not one of the two statuses, but contains 作業中
HALTED == <<"S", "G", "C", "T">>

RowPool ==
    { Row(TA, WIP, D_0301, veal, <<>>, <<>>, <<>>),
      Row(TA, PRIO, D_0301 \o <<"\r", "\n">>, ve, <<>>, <<>>, <<"x">> \o ve),
      Row(TB, WIP, D_0223, <<>>, veal \o <<"-", "c">>, <<>>, <<>>),
      Row(TB, HALTED, D_0301, veal, <<>>, <<>>, <<>>),
      Row(TA, WIP, D_0230, veal, <<>>, <<>>, <<>>),
      Row(TB, WIP, D_0223, <<"x">>, <<>>, <<>>, <<>>),
      Row(TB, WIP, D_OLD, veal, <<>>, <<>>, <<>>) }

SeqsUpTo(S, n) == UNION {[1..k -> S] : k \in 0..n}

Sheets == SeqsUpTo(RowPool, MaxRows)

\* the sheets of SpecCrash: rows due on the first day and on no other
CrashSheets ==
    SeqsUpTo({ Row(TA, WIP, D_0301, veal, <<>>, <<>>, <<>>),
               Row(TB, WIP, D_0301, <<>>, <<>>, veal, <<>>) },
             MaxCrashRows)

Reg1 == << <<veal, <<111>>>> >>

Reg2 == << <<ve, <<222>>>>, <<veal, <<111, 222>>>> >>

\* the recipient's situation when the pass reaches it: was the user found
\* (get_user / fetch_user), of which guilds is it a member, does send() work
Situations ==
    { [found |-> FALSE, guilds |-> {}, ok |-> FALSE],
      [found |-> TRUE, guilds |-> {2}, ok |-> TRUE],
      [found |-> TRUE, guilds |-> {1}, ok |-> FALSE],
      [found |-> TRUE, guilds |-> {1}, ok |-> TRUE] }

(***************************************************************************)
(* Row filters and matching (deadline_check)                               *)
(***************************************************************************)

\* bot.py:  not any(s in status for s in ("作業中","優先作業")) -> continue
\* main.py: status not in ("作業中","優先作業") -> continue
StatusOk(v, status) ==
    IF v = "bot"
    THEN \E s \in InProgress : IsSubstring(s, status)
    ELSE status \in InProgress

\* date_str = str(r.get("本収録日","")).strip()
RowDate(r) == Strip(r.date)

\* the row reaches the matching step
RowAccepted(v, r) ==
    /\ r.dict
    /\ StatusOk(v, Strip(r.status))
    /\ Parses(RowDate(r))
    /\ (v = "bot" => ParseDate(RowDate(r)).y >= MinYear)

\* cell = str(r.get(diff,"")).strip()
Cell(r, diff) ==
    Strip(CASE diff = "Sp" -> r.Sp
            [] diff = "Sm" -> r.Sm
            [] diff = "Am" -> r.Am
            [] OTHER -> r.Wt)

\* diff_map as a list of (uid, diff) pairs: a recipient matched twice is kept twice
AddUidNoDedup(dm, uid, diff) == Append(dm, <<uid, {diff}>>)

\* diff_map.setdefault(uid, set()).add(diff)
AddUid(dm, uid, diff) ==
    IF DictHas(dm, uid)
    THEN DictSet(dm, uid, DictGet(dm, uid) \cup {diff})
    ELSE Append(dm, <<uid, {diff}>>)

RECURSIVE AddUids(_, _, _)
AddUids(dm, uids, diff) ==
    IF uids = <<>> THEN dm
    ELSE AddUids(AddUid(dm, uids[1], diff), Tail(uids), diff)

RECURSIVE AddNames(_, _, _, _)
AddNames(dm, ch, cell, diff) ==
    IF ch = <<>> THEN dm
    ELSE AddNames(IF IsSubstring(ch[1][1], cell)
                  THEN AddUids(dm, ch[1][2], diff) ELSE dm,
                  Tail(ch), cell, diff)

RECURSIVE AddSlots(_, _, _, _)
AddSlots(dm, r, ch, k) ==
    IF k > Len(DIFFS) THEN dm
    ELSE AddSlots(AddNames(dm, ch, Cell(r, DIFFS[k]), DIFFS[k]), r, ch, k + 1)

\* diff_map of a row: recipient -> set of matched slots, in insertion order
DiffMap(r, ch) == AddSlots(<<>>, r, ch, 1)

\* key = f"{title}_{date_str}_{tag}"
Key(title, date_str, tag) == title \o <<"_">> \o date_str \o <<"_">> \o tag

\* "within the lead time" instead of "on the exact day"
IsDueWithin(td, target, days) == td >= target - days

\* today != target - timedelta(days=days) is false
IsDue(td, target, days) == td = target - days

\* membership of any guild at all, configured or not
MemberOfSome(gids, guilds) == guilds # {}

\* the membership test before user.send
MemberOfAny(gids, guilds) == \E g \in gids : g \in guilds

(***************************************************************************)
(* State                                                                   *)
(***************************************************************************)

VARIABLES
    variant,    \* which copy of the program runs: "bot" or "main"
    GUILD_IDS,  \* configured guild ids
    disk,       \* path -> file
    sheet,      \* the rows the sheet endpoint serves
    clock,      \* ordinal of the current UTC date
    up,         \* the process is alive
    loopOn,     \* deadline_check.is_running()
    lastRun,    \* clock day of the loop's last iteration, 0 before the first
    lives,      \* process deaths still to come in this behaviour
    pc,         \* where deadline_check is
    fetched,    \* outcome of the pass's fetch: "none", "ok", "fail"
    rows,       \* deadline_check locals
    today,
    charters,
    notified,
    loaded,     \* the ledger as the pass loaded it
    ri,         \* index of the row being processed
    mi,         \* index in LEADS of the milestone being processed
    todo,       \* items of diff_map the recipient loop has not reached yet
    log,        \* recipients handled by the current pass, in order
    recorded,   \* keys that a reader has ever found in the ledger file
    wrote,      \* paths save_json wrote during the last step
    edits,      \* the last registry commands, oldest first
    mem,        \* value returned by the last load_json call
    fop,        \* the last file operations, oldest first
    past,       \* what the passes that have ended left behind (see Ended)
    instances,  \* running instances of the deadline_check loop
    req,        \* the /deadline request being served, or the last one served
    dms,        \* messages /deadline delivered: 0, 1, 2 = several
    readies,    \* ready events since the process started: 0, 1, 2 = several
    syncing     \* on_ready handlers suspended at bot.tree.sync: 0, 1, 2 = several

vars == <<variant, GUILD_IDS, disk, sheet, clock, up, loopOn, lastRun, lives, pc,
          fetched, rows, today, charters, notified, loaded, ri, mi, todo,
          log, recorded, wrote, edits, mem, fop, past, instances,
          req, dms, readies, syncing>>

config == <<variant, GUILD_IDS, sheet>>

locals == <<rows, today, charters, notified, loaded, ri, mi, todo>>

aside == <<edits, mem, fop, req, dms>>

\* one more, counted up to "more than one"
Again(n) == IF n < 2 THEN n + 1 ELSE n

\* one fewer of a number counted up to "more than one"
Fewer(n) == IF n < 2 THEN {n - 1} ELSE {1, 2}

\* no /deadline request yet
NoRequest ==
    [pc |-> "none", uid |-> 0, reg |-> <<>>, aliases |-> <<>>, got |-> "none",
     fields |-> <<>>, reply |-> "none"]

LedgerOnDisk == ReadFile(variant, disk, NOTIFY_FILE)

RegistryOnDisk == ReadFile(variant, disk, DATA_FILE)

(***************************************************************************)
(* deadline_check                                                          *)
(***************************************************************************)

\* the row loop stopped by an exception at row i, milestone m
Raise(i, m, nt) ==
    [st |-> "raise", ri |-> i, mi |-> m, notified |-> nt, todo |-> <<>>]

\* the row loop with its sent-check made against the ledger file, which
\* holds no key marked earlier in the same pass
RECURSIVE ScanPersisted(_, _, _, _, _, _, _)
ScanPersisted(v, rws, ch, td, i, m, nt) ==
    IF i > Len(rws)
    THEN [st |-> "end", ri |-> i, mi |-> 1, notified |-> nt, todo |-> <<>>]
    ELSE IF ~RowAccepted(v, rws[i])
    THEN ScanPersisted(v, rws, ch, td, i + 1, 1, nt)
    ELSE IF ~IsDict(ch)
    THEN Raise(i, m, nt)
    ELSE LET r      == rws[i]
             dm     == DiffMap(r, ch)
             target == TargetOrdinal(RowDate(r))
             key    == Key(r.title, RowDate(r), LEADS[m].tag)
         IN  IF (v = "bot" /\ dm = <<>>) \/ m > Len(LEADS)
             THEN ScanPersisted(v, rws, ch, td, i + 1, 1, nt)
             ELSE IF target - LEADS[m].days < 1
             THEN Raise(i, m, nt)
             ELSE IF ~IsDue(td, target, LEADS[m].days)
             THEN ScanPersisted(v, rws, ch, td, i, m + 1, nt)
             ELSE IF NotIterable(nt)
             THEN Raise(i, m, nt)
             ELSE IF KeyIn(key, LedgerOnDisk)
             THEN ScanPersisted(v, rws, ch, td, i, m + 1, nt)
             ELSE IF dm # <<>>
             THEN [st |-> "await", ri |-> i, mi |-> m, notified |-> nt,
                   todo |-> dm]
             ELSE IF ~IsDict(nt)
             THEN Raise(i, m, nt)
             ELSE ScanPersisted(v, rws, ch, td, i, m + 1,
                       DictSet(nt, key, IsoFormat(td)))

\* The synchronous part of the row loop: from row i, milestone m, with the
\* in-memory ledger nt, run until the recipient loop of a due milestone is
\* entered ("await"), the rows are exhausted ("end") or an exception leaves
\* the loop ("raise"):
\*   charters.items() of a registry that is no dict (AttributeError),
\*   target - timedelta(days) below date.min (OverflowError),
\*   `key in notified` of a ledger that is None, a boolean or a number
\*   (TypeError),
\*   notified[key] = ... of a ledger that is a list or a str (TypeError),
\*   which comes after the recipient loop when the row has recipients.
RECURSIVE Scan(_, _, _, _, _, _, _)
Scan(v, rws, ch, td, i, m, nt) ==
    IF i > Len(rws)
    THEN [st |-> "end", ri |-> i, mi |-> 1, notified |-> nt, todo |-> <<>>]
    ELSE IF ~RowAccepted(v, rws[i])
    THEN Scan(v, rws, ch, td, i + 1, 1, nt)
    ELSE IF ~IsDict(ch)
    THEN Raise(i, m, nt)
    ELSE LET r      == rws[i]
             dm     == DiffMap(r, ch)
             target == TargetOrdinal(RowDate(r))
             key    == Key(r.title, RowDate(r), LEADS[m].tag)
         IN  IF (v = "bot" /\ dm = <<>>) \/ m > Len(LEADS)
             THEN Scan(v, rws, ch, td, i + 1, 1, nt)
             ELSE IF target - LEADS[m].days < 1
             THEN Raise(i, m, nt)
             ELSE IF ~IsDue(td, target, LEADS[m].days)
             THEN Scan(v, rws, ch, td, i, m + 1, nt)
             ELSE IF NotIterable(nt)
             THEN Raise(i, m, nt)
             ELSE IF KeyIn(key, nt)
             THEN Scan(v, rws, ch, td, i, m + 1, nt)
             ELSE IF dm # <<>>
             THEN [st |-> "await", ri |-> i, mi |-> m, notified |-> nt,
                   todo |-> dm]
             ELSE IF ~IsDict(nt)
             THEN Raise(i, m, nt)
             ELSE Scan(v, rws, ch, td, i, m + 1,
                       DictSet(nt, key, IsoFormat(td)))

\* notified[key] = today.isoformat() after the recipient loop of row i,
\* milestone m, then on with the row loop
MarkSent(v, rws, ch, td, i, m, nt, key) ==
    IF IsDict(nt)
    THEN Scan(v, rws, ch, td, i, m + 1, DictSet(nt, key, IsoFormat(td)))
    ELSE Raise(i, m, nt)

\* load_charters() and load_notified() at the start of a pass, and the row
\* loop from its first row; an exception that load_json lets out ends the
\* pass before the row loop
Begin(v, d, rws, td) ==
    LET lc == LoadJson(v, d, DATA_FILE)
        ln == IF lc.raised THEN lc ELSE LoadJson(v, lc.disk, NOTIFY_FILE)
    IN  [charters |-> IF lc.raised THEN <<>> ELSE lc.value,
         loaded |-> IF ln.raised THEN <<>> ELSE ln.value,
         disk |-> ln.disk,
         wrote |-> lc.wrote \cup ln.wrote,
         scan |-> IF ln.raised THEN Raise(0, 0, <<>>)
                  ELSE Scan(v, rws, lc.value, td, 1, 1, ln.value)]

\* What a pass that has ended leaves behind of its log lg: the recipients it
\* did not notify although it saved their key (saved = TRUE), or the ones it
\* notified although it ended without its final save (saved = FALSE).
Ended(lg, saved) ==
    {[key |-> lg[i].key, uid |-> lg[i].uid, sent |-> lg[i].sent,
      day |-> lg[i].day] :
        i \in {n \in 1..Len(lg) : lg[n].sent # saved}}

\* What follows a Scan (res), from disk d0 with the paths w0 already written:
\* suspend at the recipient loop, end on the exception, or save the ledger.
\* The save either completes or the process dies: before save_json has
\* opened a file (the files are as they were) or inside it (CrashedSave).
Complete(scan, dsk, w0) ==
  \E res \in {scan} : \E d0 \in {dsk} :
    /\ ri' = res.ri
    /\ mi' = res.mi
    /\ todo' = res.todo
    /\ notified' = res.notified
    /\ \/ /\ res.st = "await"
          /\ pc' = "sending"
          /\ disk' = d0
          /\ wrote' = w0
          /\ UNCHANGED <<up, loopOn, lives, past, instances, readies, syncing>>
       \/ /\ res.st = "raise"
          /\ pc' = "failed"
          /\ disk' = d0
          /\ wrote' = w0
          /\ loopOn' = (variant = "bot")
          /\ instances' = IF variant = "bot" THEN instances ELSE instances - 1
          /\ past' = past \cup Ended(log', FALSE)
          /\ UNCHANGED <<up, lives, readies, syncing>>
       \/ /\ res.st = "end"
          /\ pc' = "done"
          /\ disk' = SaveJson(variant, d0, NOTIFY_FILE, res.notified)
          /\ wrote' = w0 \cup {NOTIFY_FILE}
          /\ past' = past \cup Ended(log', TRUE)
          /\ UNCHANGED <<up, loopOn, lives, instances, readies, syncing>>
       \/ /\ res.st = "end"
          /\ lives > 0
          /\ \/ disk' = d0
             \/ \E n \in 0..(Len(Dumps(res.notified))
                                 - (IF variant = "bot" THEN 0 ELSE 1)) :
                   disk' = CrashedSave(variant, d0, NOTIFY_FILE,
                                       res.notified, n)
          /\ pc' = "dead"
          /\ wrote' = w0
          /\ up' = FALSE
          /\ loopOn' = FALSE
          /\ instances' = 0
          /\ readies' = 0
          /\ syncing' = 0
          /\ past' = past \cup Ended(log', FALSE)
          /\ lives' = lives - 1
    /\ recorded' = recorded \cup DictKeys(ReadFile(variant, disk', NOTIFY_FILE))

\* the loop's timer fires: a pass begins and awaits the sheet
PassStart ==
    /\ up
    /\ loopOn
    /\ pc \in {"idle", "done", "skipped", "failed"}
    /\ lastRun = 0 \/ clock > lastRun
    /\ pc' = "fetching"
    /\ lastRun' = clock
    /\ fetched' = "none"
    /\ rows' = <<>>
    /\ today' = 0
    /\ charters' = <<>>
    /\ notified' = <<>>
    /\ loaded' = <<>>
    /\ ri' = 0
    /\ mi' = 0
    /\ todo' = <<>>
    /\ log' = <<>>
    /\ wrote' = {}
    /\ UNCHANGED <<config, disk, clock, up, loopOn, lives, recorded, aside,
                   past, instances, readies, syncing>>

\* the failed fetch taken for an empty sheet: the pass goes on to load and save
FetchFailIgnored ==
    /\ pc = "fetching"
    /\ fetched' = "fail"
    /\ rows' = <<>>
    /\ UNCHANGED <<config, clock, lastRun, log, aside>>
    /\ \E b \in {Begin(variant, disk, <<>>, clock)} :
          /\ today' = clock
          /\ charters' = b.charters
          /\ loaded' = b.loaded
          /\ Complete(b.scan, b.disk, b.wrote)

\* the fetch failed (bot.py: fetch_sheet_data returns [], main.py: None)
FetchFail ==
    /\ pc = "fetching"
    /\ pc' = "skipped"
    /\ fetched' = "fail"
    /\ wrote' = {}
    /\ UNCHANGED <<config, disk, clock, up, loopOn, lastRun, lives, locals,
                   log, recorded, aside, past, instances, readies, syncing>>

\* the fetch returned the sheet; the pass runs to its next suspension
\* (bot.py takes an empty sheet for a failed fetch: `if not rows`)
FetchOk ==
    /\ pc = "fetching"
    /\ fetched' = "ok"
    /\ rows' = sheet
    /\ UNCHANGED <<config, clock, lastRun, log, aside>>
    /\ IF variant = "bot" /\ sheet = <<>>
       THEN /\ pc' = "skipped"
            /\ wrote' = {}
            /\ UNCHANGED <<today, charters, notified, loaded, ri, mi, todo,
                           disk, up, loopOn, lives, recorded, past, instances,
                           readies, syncing>>
       ELSE \E b \in {Begin(variant, disk, sheet, clock)} :
               /\ today' = clock
               /\ charters' = b.charters
               /\ loaded' = b.loaded
               /\ Complete(b.scan, b.disk, b.wrote)

\* the recipient loop without its try/except: a failed lookup or send ends
\* the pass
RecipientStepAborting(sit) ==
    /\ pc = "sending"
    /\ LET r      == rows[ri]
           key    == Key(r.title, RowDate(r), LEADS[mi].tag)
           sent   == /\ sit.found
                     /\ MemberOfAny(GUILD_IDS, sit.guilds)
                     /\ sit.ok
           raises == \/ ~sit.found
                     \/ MemberOfAny(GUILD_IDS, sit.guilds) /\ ~sit.ok
       IN  /\ log' = Append(log, [ri |-> ri, mi |-> mi, key |-> key,
                                  uid |-> todo[1][1], diffs |-> todo[1][2],
                                  days |-> LEADS[mi].days, day |-> today,
                                  sit |-> sit, sent |-> sent])
           /\ IF raises
              THEN /\ pc' = "failed"
                   /\ loopOn' = (variant = "bot")
                   /\ instances' = IF variant = "bot" THEN instances
                                   ELSE instances - 1
                   /\ past' = past \cup Ended(log', FALSE)
                   /\ wrote' = {}
                   /\ UNCHANGED <<notified, ri, mi, todo, disk, up, lives,
                                  recorded, readies, syncing>>
              ELSE IF Len(todo) > 1
              THEN /\ todo' = Tail(todo)
                   /\ wrote' = {}
                   /\ UNCHANGED <<notified, ri, mi, pc, disk, up, loopOn,
                                  lives, recorded, past, instances, readies, syncing>>
              ELSE Complete(MarkSent(variant, rows, charters, today, ri, mi,
                                     notified, key),
                            disk, {})
    /\ UNCHANGED <<config, clock, lastRun, fetched, rows, today, charters,
                   loaded, aside>>

\* the recipient loop of a pass that saves the ledger after each milestone
\* instead of once at its end
RecipientStepSaving(sit) ==
    /\ pc = "sending"
    /\ LET r    == rows[ri]
           key  == Key(r.title, RowDate(r), LEADS[mi].tag)
           sent == /\ sit.found
                   /\ MemberOfAny(GUILD_IDS, sit.guilds)
                   /\ sit.ok
           nt   == DictSet(notified, key, IsoFormat(today))
       IN  /\ log' = Append(log, [ri |-> ri, mi |-> mi, key |-> key,
                                  uid |-> todo[1][1], diffs |-> todo[1][2],
                                  days |-> LEADS[mi].days, day |-> today,
                                  sit |-> sit, sent |-> sent])
           /\ IF Len(todo) > 1
              THEN /\ todo' = Tail(todo)
                   /\ wrote' = {}
                   /\ UNCHANGED <<notified, ri, mi, pc, disk, up, loopOn,
                                  lives, recorded, past, instances, readies, syncing>>
              ELSE Complete(Scan(variant, rows, charters, today, ri, mi + 1, nt),
                            SaveJson(variant, disk, NOTIFY_FILE, nt),
                            {NOTIFY_FILE})
    /\ UNCHANGED <<config, clock, lastRun, fetched, rows, today, charters,
                   loaded, aside>>

\* one turn of `for uid, diffs in diff_map.items()` for a recipient in
\* situation sit, then on to the next suspension
RecipientStep(sit) ==
    /\ pc = "sending"
    /\ LET r    == rows[ri]
           key  == Key(r.title, RowDate(r), LEADS[mi].tag)
           sent == /\ sit.found
                   /\ MemberOfAny(GUILD_IDS, sit.guilds)
                   /\ sit.ok
       IN  /\ log' = Append(log, [ri |-> ri, mi |-> mi, key |-> key,
                                  uid |-> todo[1][1], diffs |-> todo[1][2],
                                  days |-> LEADS[mi].days, day |-> today,
                                  sit |-> sit, sent |-> sent])
           /\ IF Len(todo) > 1
              THEN /\ todo' = Tail(todo)
                   /\ wrote' = {}
                   /\ UNCHANGED <<notified, ri, mi, pc, disk, up, loopOn,
                                  lives, recorded, past, instances, readies, syncing>>
              ELSE Complete(MarkSent(variant, rows, charters, today, ri, mi,
                                     notified, key),
                            disk, {})
    /\ UNCHANGED <<config, clock, lastRun, fetched, rows, today, charters,
                   loaded, aside>>

(***************************************************************************)
(* Process and clock                                                       *)
(***************************************************************************)

\* the process dies (kill, power loss, redeploy); its memory is lost
Crash ==
    /\ up
    /\ lives > 0
    /\ up' = FALSE
    /\ loopOn' = FALSE
    /\ lives' = lives - 1
    /\ pc' = "dead"
    /\ fetched' = "none"
    /\ rows' = <<>>
    /\ today' = 0
    /\ charters' = <<>>
    /\ notified' = <<>>
    /\ loaded' = <<>>
    /\ ri' = 0
    /\ mi' = 0
    /\ todo' = <<>>
    /\ log' = <<>>
    /\ wrote' = {}
    /\ instances' = 0
    /\ readies' = 0
    /\ syncing' = 0
    /\ past' = IF pc = "sending" THEN past \cup Ended(log, FALSE) ELSE past
    /\ UNCHANGED <<config, disk, clock, lastRun, recorded, aside>>

\* The disks a death inside load_charters() ; load_notified() can leave
\* that a death elsewhere cannot: bot.py's load_json saves the default over
\* a missing, empty or undecodable file, and the process dies inside that
\* save, or after the save of the registry and before or inside the one of
\* the ledger.  main.py's load_json writes nothing.
LoadDeaths(v, d) ==
    LET lc == LoadJson(v, d, DATA_FILE)
        ln == LoadJson(v, lc.disk, NOTIFY_FILE)
        in(d1, l, path) ==
            IF l.wrote = {} THEN {}
            ELSE {CrashedSave(v, d1, path, <<>>, n) : n \in 0..Len(Dumps(<<>>))}
    IN  (in(d, lc, DATA_FILE) \cup {lc.disk} \cup in(lc.disk, ln, NOTIFY_FILE))
           \ {d}

\* the process dies inside load_charters() ; load_notified(): in on_ready
\* of a process that has just started (bot.py:143-144), or in the pass
\* whose fetch has returned rows (bot.py:459-460)
LoadDies ==
    /\ lives > 0
    /\ \/ ~up
       \/ up /\ pc = "fetching" /\ ~(variant = "bot" /\ sheet = <<>>)
    /\ disk' \in LoadDeaths(variant, disk)
    /\ up' = FALSE
    /\ loopOn' = FALSE
    /\ lives' = lives - 1
    /\ pc' = "dead"
    /\ fetched' = "none"
    /\ rows' = <<>>
    /\ today' = 0
    /\ charters' = <<>>
    /\ notified' = <<>>
    /\ loaded' = <<>>
    /\ ri' = 0
    /\ mi' = 0
    /\ todo' = <<>>
    /\ log' = <<>>
    /\ wrote' = {}
    /\ instances' = 0
    /\ readies' = 0
    /\ syncing' = 0
    /\ recorded' = recorded \cup DictKeys(ReadFile(variant, disk', NOTIFY_FILE))
    /\ UNCHANGED <<config, clock, lastRun, aside, past>>

\* on_ready up to its first suspension.  bot.py calls load_charters() and
\* load_notified(), which save the default over a missing, empty or
\* undecodable file, and then awaits bot.tree.sync for every configured
\* guild.  main.py loads nothing and awaits bot.tree.sync for the configured
\* guilds that bot.get_guild finds in the cache (cached).  A handler that
\* awaits is suspended there (sync) and starts the loop when it resumes.
Ready(v, gids, d, cached) ==
    LET lc == LoadJson(v, d, DATA_FILE)
        ln == LoadJson(v, lc.disk, NOTIFY_FILE)
    IN  IF v = "bot"
        THEN [disk |-> ln.disk, wrote |-> lc.wrote \cup ln.wrote,
              sync |-> gids # {}]
        ELSE [disk |-> d, wrote |-> {}, sync |-> gids # {} /\ cached]

\* the process starts and the ready event fires: on_ready runs to its first
\* suspension or, without one, to its end, where it starts the loop, whose
\* first iteration is due
Restart ==
    /\ ~up
    /\ up' = TRUE
    /\ readies' = 1
    /\ lastRun' = 0
    /\ pc' = "idle"
    /\ fetched' = "none"
    /\ rows' = <<>>
    /\ today' = 0
    /\ charters' = <<>>
    /\ notified' = <<>>
    /\ loaded' = <<>>
    /\ ri' = 0
    /\ mi' = 0
    /\ todo' = <<>>
    /\ log' = <<>>
    /\ \E cached \in BOOLEAN :
       \E rd \in {Ready(variant, GUILD_IDS, disk, cached)} :
          /\ disk' = rd.disk
          /\ wrote' = rd.wrote
          /\ syncing' = IF rd.sync THEN 1 ELSE 0
          /\ loopOn' = ~rd.sync
          /\ instances' = IF rd.sync THEN instances ELSE instances + 1
    /\ recorded' = recorded \cup DictKeys(ReadFile(variant, disk', NOTIFY_FILE))
    /\ UNCHANGED <<config, clock, lives, aside, past>>

\* on_ready that initialises both files by writing the empty default to them
OnReadyInitialising ==
    /\ up
    /\ readies' = Again(readies)
    /\ \E cached \in BOOLEAN :
       \E rd \in {Ready(variant, GUILD_IDS, disk, cached)} :
          /\ disk' = IF variant = "bot"
                     THEN SaveJson(variant,
                                   SaveJson(variant, disk, DATA_FILE, <<>>),
                                   NOTIFY_FILE, <<>>)
                     ELSE disk
          /\ wrote' = IF variant = "bot" THEN {DATA_FILE, NOTIFY_FILE} ELSE {}
          /\ syncing' = IF rd.sync THEN Again(syncing) ELSE syncing
          /\ loopOn' = (loopOn \/ ~rd.sync)
          /\ instances' = IF loopOn \/ rd.sync THEN instances
                          ELSE instances + 1
          /\ lastRun' = IF loopOn \/ rd.sync THEN lastRun ELSE 0
    /\ recorded' = recorded \cup DictKeys(ReadFile(variant, disk', NOTIFY_FILE))
    /\ UNCHANGED <<config, clock, up, lives, pc, fetched, locals, log, aside,
                   past>>

\* on_ready that starts the loop without asking whether it is running
OnReadyUnguarded ==
    /\ up
    /\ readies' = Again(readies)
    /\ \E cached \in BOOLEAN :
       \E rd \in {Ready(variant, GUILD_IDS, disk, cached)} :
          /\ disk' = rd.disk
          /\ wrote' = rd.wrote
          /\ syncing' = IF rd.sync THEN Again(syncing) ELSE syncing
          /\ loopOn' = (loopOn \/ ~rd.sync)
          /\ instances' = IF rd.sync THEN instances ELSE instances + 1
          /\ lastRun' = IF rd.sync THEN lastRun ELSE 0
    /\ recorded' = recorded \cup DictKeys(ReadFile(variant, disk', NOTIFY_FILE))
    /\ UNCHANGED <<config, clock, up, lives, pc, fetched, locals, log, aside,
                   past>>

\* the ready event fires again while the process runs (the gateway session
\* was re-established): on_ready runs to its first suspension or, without
\* one, to its end, where it starts the loop unless it is running; a loop
\* that is started runs its first pass
OnReady ==
    /\ up
    /\ readies' = Again(readies)
    /\ \E cached \in BOOLEAN :
       \E rd \in {Ready(variant, GUILD_IDS, disk, cached)} :
          /\ disk' = rd.disk
          /\ wrote' = rd.wrote
          /\ syncing' = IF rd.sync THEN Again(syncing) ELSE syncing
          /\ loopOn' = (loopOn \/ ~rd.sync)
          /\ instances' = IF loopOn \/ rd.sync THEN instances
                          ELSE instances + 1
          /\ lastRun' = IF loopOn \/ rd.sync THEN lastRun ELSE 0
    /\ recorded' = recorded \cup DictKeys(ReadFile(variant, disk', NOTIFY_FILE))
    /\ UNCHANGED <<config, clock, up, lives, pc, fetched, locals, log, aside,
                   past>>

\* an on_ready handler resumes after bot.tree.sync and reaches its end:
\* `if not deadline_check.is_running(): deadline_check.start()`
OnReadyStart ==
    /\ up
    /\ syncing > 0
    /\ syncing' \in Fewer(syncing)
    /\ loopOn' = TRUE
    /\ instances' = IF loopOn THEN instances ELSE instances + 1
    /\ lastRun' = IF loopOn THEN lastRun ELSE 0
    /\ wrote' = {}
    /\ UNCHANGED <<config, disk, clock, up, lives, pc, fetched, locals, log,
                   recorded, aside, past, readies>>

\* midnight UTC.  A pass reads the clock once, when its fetch returns, so a
\* midnight during its recipient loop acts like one right after the pass.
Tick ==
    /\ clock < Day0 + MaxDay
    /\ pc # "sending"
    /\ clock' = clock + 1
    /\ wrote' = {}
    /\ UNCHANGED <<config, disk, up, loopOn, lastRun, lives, pc, fetched,
                   locals, log, recorded, aside, past, instances, readies, syncing>>

EmptyDisk == [p \in Paths |-> Absent]

\* before the first start of the process, with the sheet s, n deaths ahead
\* and the state files reg and led
StartWith(s, n, reg, led) ==
    /\ variant \in {"bot", "main"}
    /\ GUILD_IDS \in {{}, {1}}
    /\ sheet = s
    /\ lives = n
    /\ disk = [EmptyDisk EXCEPT ![DATA_FILE] = reg, ![NOTIFY_FILE] = led]
    /\ clock = Day0
    /\ up = FALSE
    /\ loopOn = FALSE
    /\ lastRun = 0
    /\ pc = "dead"
    /\ fetched = "none"
    /\ rows = <<>>
    /\ today = 0
    /\ charters = <<>>
    /\ notified = <<>>
    /\ loaded = <<>>
    /\ ri = 0
    /\ mi = 0
    /\ todo = <<>>
    /\ log = <<>>
    /\ recorded = {}
    /\ wrote = {}
    /\ edits = <<>>
    /\ mem = <<>>
    /\ fop = <<>>
    /\ past = {}
    /\ instances = 0
    /\ req = NoRequest
    /\ dms = 0
    /\ readies = 0
    /\ syncing = 0

\* the state files as the program leaves them: the program saves only
\* dicts, so the registry file is missing or holds a registry, and the
\* ledger file is missing at the first start
Start(s, n) ==
    \E reg \in {Absent, FileOf(Dumps(Reg1)), FileOf(Dumps(Reg2))} :
       StartWith(s, n, reg, Absent)

\* the reconciler while the process stays alive
Init == \E s \in Sheets : Start(s, 0)

Next ==
    \/ Restart
    \/ OnReadyStart
    \/ PassStart
    \/ FetchFail
    \/ FetchOk
    \/ \E sit \in Situations : RecipientStep(sit)
    \/ Tick

Spec == Init /\ [][Next]_vars

\* the reconciler with process deaths and restarts
InitCrash ==
    \E s \in CrashSheets : \E reg \in {Absent, FileOf(Dumps(Reg1))} :
       StartWith(s, MaxCrashes, reg, Absent)

NextCrash ==
    \/ Restart
    \/ OnReadyStart
    \/ PassStart
    \/ FetchFail
    \/ FetchOk
    \/ \E sit \in {x \in Situations : 1 \in x.guilds} : RecipientStep(sit)
    \/ Tick
    \/ Crash
    \/ LoadDies

SpecCrash == InitCrash /\ [][NextCrash]_vars

(***************************************************************************)
(* Registry commands (bot.py only; main.py has none)                       *)
(***************************************************************************)

\* the two most recent commands, oldest first
Recent(h, e) == IF Len(h) < 2 THEN Append(h, e) ELSE <<h[Len(h)], e>>

\* the outcome of a command on a loaded value that is no dict and has
\* none of the dict methods: AttributeError, nothing is saved
Raised(data) == [changed |-> FALSE, data |-> data, raised |-> TRUE]

\* append and save without looking whether uid is already there
AddAliasAlways(data, name, uid) ==
    IF ~IsDict(data) THEN Raised(data)
    ELSE
    LET d1 == IF DictHas(data, name) THEN data ELSE Append(data, <<name, <<>>>>)
    IN  [changed |-> TRUE, raised |-> FALSE,
         data |-> DictSet(d1, name, Append(DictGet(d1, name), uid))]

\* data.setdefault(name, []); if uid not in data[name]: append and save.
\* The result is the dict to save, or the loaded dict when nothing changed.
AddAlias(data, name, uid) ==
    IF ~IsDict(data) THEN Raised(data)
    ELSE
    LET d1 == IF DictHas(data, name) THEN data ELSE Append(data, <<name, <<>>>>)
    IN  IF InList(uid, DictGet(d1, name))
        THEN [changed |-> FALSE, raised |-> FALSE, data |-> d1]
        ELSE [changed |-> TRUE, raised |-> FALSE,
              data |-> DictSet(d1, name, Append(DictGet(d1, name), uid))]

\* `name in data and uid in data[name]` raises TypeError: data is None, a
\* boolean or a number, or a list or a str that holds name (data[name])
TestRaises(data, name) ==
    ~IsDict(data) /\ (NotIterable(data) \/ Contains(data, name))

\* remove that drops the name together with whatever else is under it
RemoveAliasWholeName(data, name, uid) ==
    IF TestRaises(data, name) THEN Raised(data)
    ELSE IF DictHas(data, name) /\ InList(uid, DictGet(data, name))
    THEN [changed |-> TRUE, raised |-> FALSE, data |-> DictDel(data, name)]
    ELSE [changed |-> FALSE, raised |-> FALSE, data |-> data]

\* remove without purging the emptied name
RemoveAliasKeepEmpty(data, name, uid) ==
    IF TestRaises(data, name) THEN Raised(data)
    ELSE IF DictHas(data, name) /\ InList(uid, DictGet(data, name))
    THEN [changed |-> TRUE, raised |-> FALSE,
          data |-> DictSet(data, name, ListRemove(DictGet(data, name), uid))]
    ELSE [changed |-> FALSE, raised |-> FALSE, data |-> data]

\* if name in data and uid in data[name]: remove, purge the emptied name, save.
RemoveAlias(data, name, uid) ==
    IF TestRaises(data, name) THEN Raised(data)
    ELSE IF DictHas(data, name) /\ InList(uid, DictGet(data, name))
    THEN LET l == ListRemove(DictGet(data, name), uid)
         IN  [changed |-> TRUE, raised |-> FALSE,
              data |-> IF l = <<>> THEN DictDel(data, name)
                       ELSE DictSet(data, name, l)]
    ELSE [changed |-> FALSE, raised |-> FALSE, data |-> data]

\* a registry command that loads, applies r to the loaded value and saves
\* only when r reports a change; a command that raised has saved nothing
Edit(cmd, op, name, uid, lc, r) ==
    /\ up
    /\ variant = "bot"
    /\ disk' = IF r.changed
               THEN SaveJson(variant, lc.disk, DATA_FILE, r.data)
               ELSE lc.disk
    /\ wrote' = IF r.changed THEN lc.wrote \cup {DATA_FILE} ELSE lc.wrote
    /\ edits' = Recent(edits, [cmd |-> cmd, op |-> op, name |-> name,
                               uid |-> uid, before |-> lc.value,
                               changed |-> r.changed, raised |-> r.raised])
    /\ UNCHANGED <<config, clock, up, loopOn, lastRun, lives, pc, fetched,
                   locals, log, recorded, mem, fop, past, instances,
                   req, dms, readies, syncing>>

\* the registry as it was before the previous command saved: what a
\* command would hold had it loaded, been suspended and resumed after it
LoadChartersStale ==
    IF edits = <<>> THEN LoadJson(variant, disk, DATA_FILE)
    ELSE [value |-> edits[Len(edits)].before, disk |-> disk, wrote |-> {},
          raised |-> FALSE]

\* load_charters()
LoadCharters == LoadJson(variant, disk, DATA_FILE)

\* /listadd name user
ListAdd(name, uid) ==
    LET lc == LoadCharters
    IN  Edit("listadd", "add", name, uid, lc, AddAlias(lc.value, name, uid))

\* /listopt action user new_name
ListOpt(action, uid, new_name) ==
    LET lc == LoadCharters
    IN  IF action = "add"
        THEN Edit("listopt", "add", new_name, uid, lc,
                  AddAlias(lc.value, new_name, uid))
        ELSE Edit("listopt", "remove", new_name, uid, lc,
                  RemoveAlias(lc.value, new_name, uid))

\* /list : loads the registry, which saves the default over a missing,
\* empty or undecodable file, and shows it (or ends with the exception that
\* data.items() raises on a value that is no dict); it edits nothing
ListCmd ==
    /\ up
    /\ variant = "bot"
    /\ disk' = LoadCharters.disk
    /\ wrote' = LoadCharters.wrote
    /\ UNCHANGED <<config, clock, up, loopOn, lastRun, lives, pc, fetched,
                   locals, log, recorded, aside, past, instances, readies,
                   syncing>>

\* a running bot.py whose registry file is missing, empty, damaged, holds
\* JSON that is no object, or holds a registry the commands can produce
InitReg ==
    /\ variant = "bot"
    /\ GUILD_IDS = {1}
    /\ sheet = <<>>
    /\ lives = 0
    /\ \E reg \in {Absent, FileOf(<<>>), FileOf(<<LB, JUNK>>),
                   FileOf(<<Lit("null", <<>>)>>), FileOf(<<Lit("list", <<>>)>>),
                   FileOf(<<Lit("list", << <<"string", veal>> >>)>>),
                   FileOf(Dumps(Reg1)), FileOf(Dumps(Reg2))} :
          disk = [EmptyDisk EXCEPT ![DATA_FILE] = reg]
    /\ clock = Day0
    /\ up = TRUE
    /\ loopOn = TRUE
    /\ lastRun = Day0
    /\ pc = "idle"
    /\ fetched = "none"
    /\ rows = <<>>
    /\ today = 0
    /\ charters = <<>>
    /\ notified = <<>>
    /\ loaded = <<>>
    /\ ri = 0
    /\ mi = 0
    /\ todo = <<>>
    /\ log = <<>>
    /\ recorded = {}
    /\ wrote = {}
    /\ edits = <<>>
    /\ mem = <<>>
    /\ fop = <<>>
    /\ past = {}
    /\ instances = 1
    /\ req = NoRequest
    /\ dms = 0
    /\ readies = 1
    /\ syncing = 0

NextReg ==
    \/ \E name \in NAMES, uid \in UIDS : ListAdd(name, uid)
    \/ \E action \in {"add", "remove"}, name \in NAMES, uid \in UIDS :
          ListOpt(action, uid, name)
    \/ ListCmd

SpecReg == InitReg /\ [][NextReg]_vars

(***************************************************************************)
(* /deadline : the on-demand form, for the requesting identity only        *)
(***************************************************************************)

\* rows in the sheet of SpecLive
MaxLiveRows == 1

\* str(r.get(diff, "")) : the slot as the sheet holds it
RawCell(r, diff) ==
    CASE diff = "Sp" -> r.Sp
      [] diff = "Sm" -> r.Sm
      [] diff = "Am" -> r.Am
      [] OTHER -> r.Wt

\* my_aliases = [name for name, users in charter_map.items() if uid in users]
RECURSIVE MyAliases(_, _)
MyAliases(ch, uid) ==
    IF ch = <<>> THEN <<>>
    ELSE (IF InList(uid, ch[1][2]) THEN <<ch[1][1]>> ELSE <<>>)
         \o MyAliases(Tail(ch), uid)

\* the row passes the status and date tests of /deadline, which look at the
\* values as the sheet holds them
DemandRowOk(r) ==
    /\ r.dict
    /\ r.status \in InProgress
    /\ r.date # <<>>
    /\ Parses(r.date)

\* matched_diffs of a row, in the order of the slots
RECURSIVE MatchedDiffs(_, _, _)
MatchedDiffs(r, aliases, k) ==
    IF k > Len(DIFFS) THEN <<>>
    ELSE (IF \E n \in 1..Len(aliases) : IsSubstring(aliases[n], RawCell(r, DIFFS[k]))
          THEN <<DIFFS[k]>> ELSE <<>>)
         \o MatchedDiffs(r, aliases, k + 1)

\* the fields of the embed: one per listed row, from row i on
RECURSIVE DemandFields(_, _, _)
DemandFields(rws, aliases, i) ==
    IF i > Len(rws) THEN <<>>
    ELSE LET r  == rws[i]
             md == IF DemandRowOk(r) THEN MatchedDiffs(r, aliases, 1) ELSE <<>>
         IN  (IF md # <<>>
              THEN <<[ri |-> i, title |-> r.title, diffs |-> md,
                      target |-> TargetOrdinal(r.date)]>>
              ELSE <<>>)
             \o DemandFields(rws, aliases, i + 1)

\* the command ended with an exception: nothing is replied, nothing is sent
Failed(q) == [q EXCEPT !.pc = "raised", !.fields = <<>>, !.reply = "none"]

\* int(target.timestamp()) of the naive datetime raises ValueError (year 0
\* is out of range) for 0001-01-01, whose ordinal is 1; it stands outside
\* the try that guards strptime
TimestampRaises(target) == target = 1

\* what follows once both the rows rws and the registry are at hand
Listing(q, rws) ==
    LET fs == DemandFields(rws, q.aliases, 1)
    IN  IF \E n \in 1..Len(fs) : TimestampRaises(fs[n].target)
        THEN Failed(q)
        ELSE IF fs = <<>>
        THEN [q EXCEPT !.pc = "replied", !.reply = "no_tasks"]
        ELSE [q EXCEPT !.pc = "sending", !.fields = fs]

\* the reply to an identity that has no alias
Unregistered(q) == [q EXCEPT !.pc = "replied", !.reply = "unregistered"]

\* how the fetch ended
Got(ok) == IF ok THEN "ok" ELSE "fail"

\* charter_map = load_charters() and my_aliases, for the request q;
\* charter_map.items() raises on a value that is no dict.  The request
\* goes on (go) when the requester has an alias.
WithAliases(v, d, q) ==
    LET lc == LoadJson(v, d, DATA_FILE)
        q1 == [q EXCEPT !.reg = IF lc.raised THEN <<>> ELSE lc.value]
        q2 == [q1 EXCEPT !.aliases = MyAliases(lc.value, q.uid)]
        stop == lc.raised \/ ~IsDict(lc.value)
    IN  [disk |-> lc.disk, wrote |-> lc.wrote,
         go |-> ~stop /\ q2.aliases # <<>>,
         req |-> IF stop THEN Failed(q1)
                 ELSE IF q2.aliases = <<>> THEN Unregistered(q2)
                 ELSE q2]

\* a request of uid that awaits the sheet
Fetching(uid) ==
    [NoRequest EXCEPT !.pc = "fetching", !.uid = uid]

\* /deadline is invoked by uid.  bot.py defers and awaits the sheet;
\* main.py defers, loads the registry, and awaits the sheet only when the
\* requester has an alias.
DeadlineCmd(uid) ==
    /\ up
    /\ req.pc \in {"none", "replied", "raised"}
    /\ IF variant = "bot"
       THEN /\ req' = Fetching(uid)
            /\ disk' = disk
            /\ wrote' = {}
       ELSE \E w \in {WithAliases(variant, disk, Fetching(uid))} :
               /\ req' = w.req
               /\ disk' = w.disk
               /\ wrote' = w.wrote
    /\ UNCHANGED <<config, clock, up, loopOn, lastRun, lives, pc, fetched,
                   locals, log, recorded, edits, mem, fop, past, instances, dms,
                   readies, syncing>>

\* the on-demand form made to use the ledger as the periodic form does: rows
\* whose week3 key is marked are left out, the others are marked and saved
DemandFetchedDedup(ok) ==
    /\ req.pc = "fetching"
    /\ LET ln == LoadJson(variant, disk, NOTIFY_FILE)
           rs == SelectSeq(IF ok THEN sheet ELSE <<>>,
                           LAMBDA r : ~DictHas(ln.value,
                                           Key(r.title, RowDate(r), week3)))
           nt == IF rs = <<>> THEN ln.value
                 ELSE DictSet(ln.value, Key(rs[1].title, RowDate(rs[1]), week3),
                              IsoFormat(clock))
           q  == [req EXCEPT !.got = Got(ok)]
           w  == IF variant = "bot"
                 THEN WithAliases(variant, ln.disk, q)
                 ELSE [disk |-> ln.disk, wrote |-> {}, go |-> TRUE, req |-> q]
       IN  /\ req' = IF w.go THEN Listing(w.req, rs) ELSE w.req
           /\ disk' = SaveJson(variant, w.disk, NOTIFY_FILE, nt)
           /\ wrote' = {NOTIFY_FILE}
    /\ UNCHANGED <<config, clock, up, loopOn, lastRun, lives, pc, fetched,
                   locals, log, recorded, edits, mem, fop, past, instances, dms,
                   readies, syncing>>

\* the fetch of the request returns: the rows (ok) or a failure.
\* bot.py: fetch_sheet_data returns [] on failure, then the registry is
\* loaded and the rows are listed.  main.py: fetch_sheet returns None on
\* failure, which is reported; otherwise the rows are listed.
DemandFetched(ok) ==
    /\ req.pc = "fetching"
    /\ \E q \in {[req EXCEPT !.got = Got(ok)]} :
       IF variant = "bot"
       THEN \E w \in {WithAliases(variant, disk, q)} :
               /\ req' = IF w.go
                         THEN Listing(w.req, IF ok THEN sheet ELSE <<>>)
                         ELSE w.req
               /\ disk' = w.disk
               /\ wrote' = w.wrote
       ELSE /\ req' = IF ok THEN Listing(q, sheet)
                      ELSE [q EXCEPT !.pc = "replied", !.reply = "api_failed"]
            /\ disk' = disk
            /\ wrote' = {}
    /\ UNCHANGED <<config, clock, up, loopOn, lastRun, lives, pc, fetched,
                   locals, log, recorded, edits, mem, fop, past, instances, dms,
                   readies, syncing>>

\* how await interaction.user.send(embed=embed) ends: it returns, raises
\* discord.Forbidden, or raises another exception (discord.HTTPException)
SendOutcomes == {"sent", "forbidden", "error"}

\* await interaction.user.send(embed=embed) returns or raises
\* discord.Forbidden, and the requester is told which; any other exception
\* leaves the command, which replies nothing
DemandSend(res) ==
    /\ req.pc = "sending"
    /\ req' = IF res = "error" THEN Failed(req)
              ELSE [req EXCEPT !.pc = "replied",
                               !.reply = IF res = "sent" THEN "dm_sent"
                                         ELSE "dm_failed"]
    /\ dms' = IF res = "sent" THEN Again(dms) ELSE dms
    /\ wrote' = {}
    /\ UNCHANGED <<config, disk, clock, up, loopOn, lastRun, lives, pc, fetched,
                   locals, log, recorded, edits, mem, fop, past, instances,
                   readies, syncing>>

\* the rows of the pool on which a pass of the first day acts: a milestone
\* falls on that day, or the date arithmetic overflows
LivePool ==
    {r \in RowPool :
        /\ Parses(RowDate(r))
        /\ \E m \in 1..Len(LEADS) :
              \/ TargetOrdinal(RowDate(r)) - LEADS[m].days = Day0
              \/ TargetOrdinal(RowDate(r)) - LEADS[m].days < 1}

\* of these, the rows of SpecLive: the row that is due, the row with
\* whitespace around its status and date, and the row dated datetime.min
LiveRows == {r \in LivePool : r.title = TA \/ r.date = D_OLD}

LiveSheets == SeqsUpTo(LiveRows, MaxLiveRows)

\* registry commands in one behaviour of SpecLive
MaxLiveEdits == 1

\* /listadd, /listopt or /list is invoked; each runs without suspension up
\* to its reply
LiveEdit ==
    \/ Len(edits) < MaxLiveEdits /\ ListAdd(veal, 222)
    \/ Len(edits) < MaxLiveEdits /\ ListOpt("remove", 111, veal)
    \/ ListCmd

\* one UTC day of a process that stays alive, with one configured guild and
\* a registry: the periodic passes, the ready events, the
\* /deadline requests and the registry commands, interleaved at their
\* suspension points
InitLive ==
    /\ \E s \in LiveSheets : \E reg \in {Reg1, Reg2} :
          StartWith(s, 0, FileOf(Dumps(reg)), Absent)
    /\ GUILD_IDS = {1}

\* there the recipients are members that can be found; the send may fail
LiveSituations == {sit \in Situations : sit.found /\ sit.guilds = {1}}

NextLive ==
    \/ Restart
    \/ OnReady
    \/ OnReadyStart
    \/ PassStart
    \/ FetchFail
    \/ FetchOk
    \/ \E sit \in LiveSituations : RecipientStep(sit)
    \/ \E uid \in UIDS : DeadlineCmd(uid)
    \/ \E ok \in BOOLEAN : DemandFetched(ok)
    \/ \E res \in SendOutcomes : DemandSend(res)
    \/ LiveEdit

SpecLive == InitLive /\ [][NextLive]_vars

\* sheets of at most one row: a row on which the pass of the first day acts,
\* or a row whose date cannot be parsed
SchedSheets ==
    {<<>>} \cup {<<r>> : r \in LivePool \cup {q \in RowPool : ~Parses(RowDate(q))}}

\* the registry file and the ledger file at the first start
SchedFiles ==
    {<<reg, Absent>> :
        reg \in {Absent, FileOf(Dumps(Reg1)), FileOf(Dumps(Reg2)),
                 FileOf(<<Lit("null", <<>>)>>)}}
    \cup
    {<<FileOf(Dumps(Reg1)), led>> :
        led \in {FileOf(<<Lit("null", <<>>)>>), FileOf(<<Lit("list", <<>>)>>),
                 FileOf(<<Lit("list", << <<"number", <<"1">>>> >>)>>),
                 FileOf(<<Lit("list",
                            << <<"string", Key(TA, D_0301, week3)>> >>)>>),
                 FileOf(<<Lit("string", <<<<"a", "b", "c">>>>)>>),
                 FileOf(<<DEEP>>)}}

\* The recurring schedule of a process that stays alive, over several days,
\* with one configured guild.
\* @tasks.loop(hours=24) runs the next pass once the interval has passed and
\* the pass before it has returned; the fetch returns within its timeout and
\* every lookup and send returns or raises.  A ready event may come again
\* (reconnection), but nothing in the code makes it come.
\* There the state files are as the program leaves them or as they were
\* left by someone else: one of them has content that is no JSON object.
InitSched ==
    /\ \E s \in SchedSheets : \E fs \in SchedFiles :
          StartWith(s, 0, fs[1], fs[2])
    /\ GUILD_IDS = {1}

NextSched ==
    \/ Next
    \/ OnReady

\* the step of the start-up or of the loop that is ready to run; at most one
\* of them is, since the loop runs one pass at a time
LoopStep ==
    \/ Restart
    \/ PassStart
    \/ FetchFail
    \/ FetchOk
    \/ \E sit \in Situations : RecipientStep(sit)

SpecSched ==
    /\ InitSched
    /\ [][NextSched]_vars
    /\ WF_vars(Tick)
    /\ WF_vars(OnReadyStart)
    /\ WF_vars(LoopStep)

(***************************************************************************)
(* load_json / save_json applied to arbitrary file contents                *)
(***************************************************************************)

\* tokens in a file text of InitFile
MaxTok == 3

K1 == Key(TA, D_0301, week3)

K2 == Key(TB, D_0223, week2)

Led1 == << <<K1, IsoFormat(Day0)>> >>

Led2 == << <<K2, IsoFormat(Day0)>>, <<K1, IsoFormat(Day0)>> >>

\* what the program saves to each state file
DataPool(path) ==
    IF path = DATA_FILE THEN {<<>>, Reg1, Reg2} ELSE {<<>>, Led1, Led2}

TokenPool(path) ==
    {LB, RB, JUNK,
     IF path = DATA_FILE THEN Item(veal, <<111>>) ELSE Item(K1, IsoFormat(Day0))}

\* the three most recent file operations, oldest first
Recent3(h, e) == IF Len(h) < 3 THEN Append(h, e) ELSE <<h[2], h[3], e>>

\* file texts of InitFile besides the sequences of tokens of TokenPool:
\* JSON that is no object, whitespace, bytes that are no UTF-8, brackets
\* nested beyond the recursion limit
OddTexts ==
    {<<Lit("null", <<>>)>>, <<Lit("number", <<<<"1", "2", "3">>>>)>>,
     <<Lit("list", <<>>)>>, <<Lit("list", << <<"number", <<"1">>>> >>)>>,
     <<Lit("string", <<<<"a", "b", "c">>>>)>>,
     <<SP>>, <<SP, LB, RB, SP>>,
     <<BYTES>>, <<LB, BYTES>>, <<DEEP>>, <<DEEP, JUNK>>}

\* load_json(path, {}) ; mem keeps what the call returned, if it returned
FLoad(path) ==
    LET r == LoadJson(variant, disk, path)
    IN  /\ mem' = IF r.raised THEN mem ELSE r.value
        /\ disk' = r.disk
        /\ wrote' = r.wrote
        /\ fop' = Recent3(fop, [op |-> "load", path |-> path,
                                bad |-> disk[path].exists
                                        /\ InvalidJson(disk[path].text),
                                raised |-> r.raised, data |-> r.value])
        /\ UNCHANGED <<config, clock, up, loopOn, lastRun, lives, pc, fetched,
                       locals, log, recorded, edits, past, instances,
                       req, dms, readies, syncing>>

\* save_json(path, data)
FSave(path, data) ==
    /\ disk' = SaveJson(variant, disk, path, data)
    /\ wrote' = {path}
    /\ fop' = Recent3(fop, [op |-> "save", path |-> path, bad |-> FALSE,
                            raised |-> FALSE, data |-> data])
    /\ UNCHANGED <<config, clock, up, loopOn, lastRun, lives, pc, fetched,
                   locals, log, recorded, edits, mem, past, instances,
                   req, dms, readies, syncing>>

InitFile ==
    /\ variant \in {"bot", "main"}
    /\ GUILD_IDS = {1}
    /\ sheet = <<>>
    /\ lives = 0
    /\ \E path \in {DATA_FILE, NOTIFY_FILE} :
          \E f \in {Absent} \cup {FileOf(t) : t \in SeqsUpTo(TokenPool(path), MaxTok)
                                                   \cup OddTexts} :
             disk = [EmptyDisk EXCEPT ![path] = f]
    /\ clock = Day0
    /\ up = TRUE
    /\ loopOn = FALSE
    /\ lastRun = 0
    /\ pc = "idle"
    /\ fetched = "none"
    /\ rows = <<>>
    /\ today = 0
    /\ charters = <<>>
    /\ notified = <<>>
    /\ loaded = <<>>
    /\ ri = 0
    /\ mi = 0
    /\ todo = <<>>
    /\ log = <<>>
    /\ recorded = {}
    /\ wrote = {}
    /\ edits = <<>>
    /\ mem = <<>>
    /\ fop = <<>>
    /\ past = {}
    /\ instances = 0
    /\ req = NoRequest
    /\ dms = 0
    /\ readies = 0
    /\ syncing = 0

NextFile ==
    \/ \E path \in {DATA_FILE, NOTIFY_FILE} : FLoad(path)
    \/ \E path \in {DATA_FILE, NOTIFY_FILE} :
          \E data \in DataPool(path) : FSave(path, data)

SpecFile == InitFile /\ [][NextFile]_vars

(***************************************************************************)
(* Properties                                                              *)
(***************************************************************************)

Last(sq) == sq[Len(sq)]

\* the step handled one recipient
Handled == Len(log') = Len(log) + 1

\* identities registered under an alias that occurs in one of the four slots
Matched(r, ch) ==
    {u \in UNION {{ch[i][2][n] : n \in 1..Len(ch[i][2])} : i \in 1..Len(ch)} :
        \E i \in 1..Len(ch) :
           /\ InList(u, ch[i][2])
           /\ \E slot \in {r.Sp, r.Sm, r.Am, r.Wt} : IsSubstring(ch[i][1], slot)}

\* the row has one of the two in-progress statuses and a target date
Legit(r) ==
    /\ r.dict
    /\ Strip(r.status) \in InProgress
    /\ Parses(RowDate(r))

\* the row is one for which the milestone m falls on the day td
Eligible(r, td, m) ==
    /\ Legit(r)
    /\ TargetOrdinal(RowDate(r)) - LEADS[m].days = td
    /\ Matched(r, charters) # {}

RowKey(r, m) == Key(r.title, RowDate(r), LEADS[m].tag)

\* messages of the current pass sent to u for the key k
SentCount(k, u) ==
    Cardinality({i \in 1..Len(log) :
                    log[i].key = k /\ log[i].uid = u /\ log[i].sent})

\* C1: once a key has been found in the persisted ledger, no later step of
\* any pass sends a notification for that key, also after restarts.
C1_NoResendOfRecordedKey ==
    [][(Handled /\ Last(log').sent) => Last(log').key \notin recorded]_vars

\* C2: every recipient a pass handles, it handles on the day that is the
\* row's target date minus exactly 21 days (week3) or 14 days (week2), and
\* every key in the ledger, in memory or on disk, is the key of a row and
\* milestone recorded on that exact day.
C2_ExactDayOnly ==
    /\ \A i \in 1..Len(log) :
          LET e == log[i]
              r == rows[e.ri]
          IN  /\ Parses(RowDate(r))
              /\ \E lead \in {<<21, week3>>, <<14, week2>>} :
                    /\ e.days = lead[1]
                    /\ e.key = Key(r.title, RowDate(r), lead[2])
                    /\ e.day = TargetOrdinal(RowDate(r)) - lead[1]
    /\ \A L \in {notified, LedgerOnDisk} :
          \A k \in DictKeys(L) :
             \E j \in 1..Len(sheet) :
                \E lead \in {<<21, week3>>, <<14, week2>>} :
                   LET r == sheet[j]
                   IN  /\ r.dict
                       /\ k = Key(r.title, RowDate(r), lead[2])
                       /\ Parses(RowDate(r))
                       /\ DictGet(L, k)
                             = IsoFormat(TargetOrdinal(RowDate(r)) - lead[1])

\* a pass ended on the day after the week3 day of a matching row, which it
\* left alone, and notified the recipient of another row due that day
C2_Witness ==
    /\ pc = "done"
    /\ today = Day0 + 1
    /\ \E i \in 1..Len(log) : log[i].sent /\ log[i].day = today
    /\ \E j \in 1..Len(rows) :
          /\ Eligible(rows[j], today - 1, 1)
          /\ ~DictHas(notified, RowKey(rows[j], 1))
          /\ \A i \in 1..Len(log) : log[i].ri # j

\* C3 as claimed: in a pass that ran to its end, every matched recipient of
\* an in-progress row due that day got exactly one notification per milestone.
C3_ExactlyOnePerRecipient ==
    pc = "done" =>
       \A j \in 1..Len(rows) : \A m \in 1..Len(LEADS) :
          Eligible(rows[j], today, m) =>
             \A u \in Matched(rows[j], charters) :
                SentCount(RowKey(rows[j], m), u) = 1

\* C3 amended: in a pass that ran to its end, no matched recipient of such a
\* row got more than one notification for the milestone; and when the key
\* was not in the ledger as loaded and no earlier row of the fetch has the
\* same title and date string, every matched recipient was handled exactly
\* once, and was sent the notification exactly when it was found, belonged
\* to a configured guild and the send succeeded.
C3_OnePerReachableRecipient ==
    pc = "done" =>
       \A j \in 1..Len(rows) : \A m \in 1..Len(LEADS) :
          Eligible(rows[j], today, m) =>
             /\ \A u \in Matched(rows[j], charters) :
                   SentCount(RowKey(rows[j], m), u) <= 1
             /\ ( /\ ~DictHas(loaded, RowKey(rows[j], m))
                  /\ \A j2 \in 1..(j - 1) :
                        ~ /\ rows[j2].dict
                          /\ rows[j2].title = rows[j].title
                          /\ RowDate(rows[j2]) = RowDate(rows[j]) )
                => \A u \in Matched(rows[j], charters) :
                      LET A == {i \in 1..Len(log) :
                                   /\ log[i].ri = j
                                   /\ log[i].mi = m
                                   /\ log[i].uid = u}
                      IN  /\ Cardinality(A) = 1
                          /\ \A i \in A :
                                log[i].sent <=>
                                   /\ log[i].sit.found
                                   /\ log[i].sit.guilds \cap GUILD_IDS # {}
                                   /\ log[i].sit.ok

\* a pass ended in which a recipient matched through two aliases and two
\* slots got its single notification, next to a recipient that got none
C3_Witness ==
    /\ pc = "done"
    /\ \E i \in 1..Len(log) :
          /\ log[i].sent
          /\ Cardinality(log[i].diffs) = 2
          /\ Eligible(rows[log[i].ri], today, log[i].mi)
          /\ Cardinality({n \in 1..Len(charters) :
                             InList(log[i].uid, charters[n][2])}) = 2
    /\ \E i \in 1..Len(log) : ~log[i].sent

\* C4 as claimed: no notification is sent for, and no key is recorded by, a
\* row whose status is not one of the two in-progress statuses or whose
\* target date does not parse.
C4_RejectedRowsSilent ==
    /\ \A i \in 1..Len(log) : log[i].sent => Legit(rows[log[i].ri])
    /\ \A k \in DictKeys(notified) \ DictKeys(loaded) :
          \E j \in 1..Len(rows) : \E m \in 1..Len(LEADS) :
             Legit(rows[j]) /\ k = RowKey(rows[j], m)

\* C5: the step in which the fetch of a pass fails sends nothing, writes no
\* file and leaves the ledger file as it was.
C5_FetchFailureIsInert ==
    [][(pc = "fetching" /\ fetched' = "fail")
          => /\ log' = <<>>
             /\ wrote' = {}
             /\ disk'[NOTIFY_FILE] = disk[NOTIFY_FILE]
             /\ pc' = "skipped"]_vars

\* a pass was abandoned on a failed fetch although a row was due that day
C5_Witness ==
    /\ pc = "skipped"
    /\ fetched = "fail"
    /\ log = <<>>
    /\ \E j \in 1..Len(sheet) :
          /\ Legit(sheet[j])
          /\ TargetOrdinal(RowDate(sheet[j])) - 21 = clock
          /\ Matched(sheet[j], RegistryOnDisk) # {}

\* C6 as claimed: whatever a step does, death of the process included, each
\* state file afterwards holds its previous content or a complete JSON text.
C6_SavesAreAtomic ==
    [][\A p \in {DATA_FILE, NOTIFY_FILE} :
          \/ disk'[p] = disk[p]
          \/ disk'[p].exists /\ IsJson(disk'[p].text)]_vars

\* C7 as claimed: load_json of a file whose content is not valid JSON
\* returns the empty default and does not raise; after save_json the file
\* holds valid JSON, and a load that follows a save returns exactly the
\* saved data.
C7_CorruptionRoundTrip ==
    /\ \A i \in 1..Len(fop) :
          (fop[i].op = "load" /\ fop[i].bad)
             => (fop[i].data = <<>> /\ ~fop[i].raised)
    /\ (fop # <<>> /\ Last(fop).op = "save")
          => /\ disk[Last(fop).path].exists
             /\ IsJson(disk[Last(fop).path].text)
    /\ \A i \in 2..Len(fop) :
          ( /\ fop[i].op = "load"
            /\ fop[i - 1].op = "save"
            /\ fop[i].path = fop[i - 1].path )
             => (fop[i].data = fop[i - 1].data /\ ~fop[i].raised)

\* the last two commands were add (A, U) then remove (A, U)
AddThenRemove ==
    /\ Len(edits) = 2
    /\ edits[1].op = "add"
    /\ edits[2].op = "remove"
    /\ edits[1].name = edits[2].name
    /\ edits[1].uid = edits[2].uid

\* C8 as claimed: after add (A, U) then remove (A, U) the registry does not
\* contain the name A.
C8_AddRemovePurgesName ==
    AddThenRemove => ~DictHas(RegistryOnDisk, edits[1].name)

\* C8 amended: after add (A, U) then remove (A, U), U is not registered under
\* A, and the registry contains the name A exactly when an identity other
\* than U was registered under A before the add.
C8_AddRemovePurgesPair ==
    AddThenRemove =>
       LET A == edits[1].name
           U == edits[1].uid
           b == edits[1].before
       IN  /\ DictHas(RegistryOnDisk, A) => ~InList(U, DictGet(RegistryOnDisk, A))
           /\ DictHas(RegistryOnDisk, A)
                 <=> /\ DictHas(b, A)
                     /\ \E n \in 1..Len(DictGet(b, A)) : DictGet(b, A)[n] # U

\* add then remove of a pair whose name was new emptied and purged the name,
\* while another name stayed
C8_Witness ==
    /\ AddThenRemove
    /\ edits[1].changed
    /\ ~DictHas(edits[1].before, edits[1].name)
    /\ ~DictHas(RegistryOnDisk, edits[1].name)
    /\ RegistryOnDisk # <<>>

\* C9: an add of a pair that is already registered leaves the registry as
\* it was and writes no file; after an add that completed the identity is
\* under the name once; and a second add in a row leaves the registry as the
\* first add left it.
C9_AddIsIdempotent ==
    /\ (edits # <<>> /\ Last(edits).op = "add" /\ ~Last(edits).raised)
          => LET e == Last(edits)
             IN  /\ DictHas(RegistryOnDisk, e.name)
                 /\ Cardinality({n \in 1..Len(DictGet(RegistryOnDisk, e.name)) :
                                    DictGet(RegistryOnDisk, e.name)[n] = e.uid}) = 1
                 /\ (DictHas(e.before, e.name)
                        /\ InList(e.uid, DictGet(e.before, e.name)))
                       => (RegistryOnDisk = e.before /\ wrote = {})
    /\ ( /\ Len(edits) = 2
         /\ edits[1].op = "add"
         /\ edits[2].op = "add"
         /\ edits[1].name = edits[2].name
         /\ edits[1].uid = edits[2].uid )
          => (RegistryOnDisk = edits[2].before /\ wrote = {})

\* the same pair was added twice in a row; the second add wrote nothing
C9_Witness ==
    /\ Len(edits) = 2
    /\ edits[1].op = "add" /\ edits[1].changed
    /\ edits[2].op = "add" /\ ~edits[2].changed
    /\ edits[1].name = edits[2].name
    /\ edits[1].uid = edits[2].uid
    /\ wrote = {}
    /\ InList(edits[2].uid, DictGet(RegistryOnDisk, edits[2].name))

\* C10 as claimed: no step removes a key from the ledger file or changes the
\* date recorded for it.
C10_LedgerIsPermanent ==
    [][\A k \in DictKeys(LedgerOnDisk) :
          /\ DictHas(LedgerOnDisk', k)
          /\ DictGet(LedgerOnDisk', k) = DictGet(LedgerOnDisk, k)]_vars

\* C11 as claimed: a recipient that a pass did not notify (send failed or
\* skipped) while the pass marked and saved the key is not sent that
\* milestone by any later pass.
C11_FailedRecipientNeverRetried ==
    [][(Handled /\ Last(log').sent)
          => ~\E e \in past :
                /\ ~e.sent
                /\ e.key = Last(log').key
                /\ e.uid = Last(log').uid]_vars

\* the ledger file changes in this step
LedgerWritten == disk'[NOTIFY_FILE] # disk[NOTIFY_FILE]

\* a pass writes the ledger file only in the step that ends it, after the
\* last row; while it is among its recipients the file holds the ledger as
\* loaded; when the process dies before the final save has completed, none
\* of the keys the pass sent for is in the ledger file
SavedOnceAtTheEnd ==
    /\ [][(LedgerWritten /\ up)
             => /\ pc \in {"fetching", "sending"}
                /\ pc' \in {"done", "dead"}
                /\ ri' > Len(rows')]_vars
    /\ [](pc = "sending" => LedgerOnDisk = loaded)
    /\ [][\A e \in past' \ past :
             e.sent => ~DictHas(LedgerOnDisk', e.key)]_vars

\* the pass that has run to its end has handled the recipient of e again,
\* and has sent to it if it could be reached
HandledAgain(e) ==
    \E i \in 1..Len(log) :
       /\ log[i].key = e.key
       /\ log[i].uid = e.uid
       /\ log[i].sent = (/\ log[i].sit.found
                         /\ MemberOfAny(GUILD_IDS, log[i].sit.guilds)
                         /\ log[i].sit.ok)

\* C12 as claimed: the ledger is saved once, at the end of the pass, a death
\* before the final save leaves none of the pass's keys in the file, and a
\* later pass that runs to its end without such a key in its loaded ledger
\* handles that recipient again.
C12_CrashedSendsResentNextCycle ==
    /\ SavedOnceAtTheEnd
    /\ [](pc = "done"
            => \A e \in past :
                  (e.sent /\ ~DictHas(loaded, e.key)) => HandledAgain(e))

\* C12 amended: the ledger is saved once, at the end of the pass, a death
\* before the final save leaves none of the pass's keys in the file, and a
\* later pass that runs to its end on the same UTC date, without such a key
\* in its loaded ledger, handles that recipient again.
C12_BatchedSaveLosesKeysOnCrash ==
    /\ SavedOnceAtTheEnd
    /\ [](pc = "done"
            => \A e \in past :
                  (e.sent /\ ~DictHas(loaded, e.key) /\ e.day = today)
                     => HandledAgain(e))

\* the process died after a pass over two rows had notified a recipient and
\* before the final save; the pass after the restart, on the same date,
\* notified that recipient again
C12_Witness ==
    /\ pc = "done"
    /\ lives < MaxCrashes
    /\ Len(rows) = 2
    /\ \E e \in past : \E i \in 1..Len(log) :
          /\ e.sent
          /\ ~DictHas(loaded, e.key)
          /\ e.day = today
          /\ log[i].key = e.key
          /\ log[i].uid = e.uid
          /\ log[i].sent
          /\ DictHas(LedgerOnDisk, e.key)

\* a step of a /deadline request
ReqStep == req' # req

\* some alias of uid in the registry ch occurs in a slot of the row
Mine(r, ch, uid) ==
    \E i \in 1..Len(ch) :
       /\ InList(uid, ch[i][2])
       /\ \E slot \in {r.Sp, r.Sm, r.Am, r.Wt} : IsSubstring(ch[i][1], slot)

\* C13: a step of an on-demand request leaves the ledger file, the content
\* of the registry and everything the periodic pass holds as they were, so a
\* pass among its recipients still finds the ledger file as it loaded it and
\* a pass that ended has saved exactly its own ledger; a request whose fetch
\* succeeded lists every row of the requester that passes its filters,
\* whatever the ledger holds; and every request whose send succeeds
\* delivers one more direct message.
C13_OnDemandNeverTouchesLedger ==
    /\ [][ReqStep
             => /\ disk'[NOTIFY_FILE] = disk[NOTIFY_FILE]
                /\ \/ disk'[DATA_FILE] = disk[DATA_FILE]
                   \/ RegistryOnDisk' = RegistryOnDisk
                /\ UNCHANGED <<pc, fetched, locals, log, past, recorded,
                               loopOn>>]_vars
    /\ [](pc = "sending" => LedgerOnDisk = loaded)
    /\ [](pc = "done" => LedgerOnDisk = notified)
    /\ []((req.got = "ok" /\ req.pc # "raised")
            => \A j \in 1..Len(sheet) :
                  (DemandRowOk(sheet[j]) /\ Mine(sheet[j], req.reg, req.uid))
                     => \E n \in 1..Len(req.fields) : req.fields[n].ri = j)
    /\ [][(req.pc = "sending" /\ req'.reply = "dm_sent")
             => dms' = Again(dms)]_vars

\* /deadline has delivered its list more than once, and the requester of the
\* last one had been notified of a listed task by the periodic pass, which
\* recorded the key
C13_Witness ==
    /\ req.reply = "dm_sent"
    /\ dms = 2
    /\ pc = "done"
    /\ \E n \in 1..Len(req.fields) : \E i \in 1..Len(log) :
          /\ log[i].ri = req.fields[n].ri
          /\ log[i].uid = req.uid
          /\ log[i].sent
          /\ DictHas(LedgerOnDisk, log[i].key)

\* C14: however often the ready event fires, at most one instance of the
\* deadline_check loop runs, is_running() tells whether one does, and a pass
\* begins only when no pass of the loop is in progress.
C14_LoopStartedOnce ==
    /\ [](instances <= 1)
    /\ [](loopOn <=> instances = 1)
    /\ [][(pc' = "fetching" /\ pc # "fetching")
             => (instances = 1 /\ pc \notin {"fetching", "sending"})]_vars

\* the ready event fired again while a pass was among its recipients, and
\* the loop still has its single instance
C14_Witness ==
    /\ readies = 2
    /\ pc = "sending"
    /\ log # <<>>
    /\ instances = 1

\* C15: a pass sends to a recipient only if, when it is handled, it is a
\* member of one of the configured guilds; with no guild configured nothing
\* is sent.
C15_OnlyGuildMembersNotified ==
    /\ \A i \in 1..Len(log) :
          log[i].sent => log[i].sit.guilds \cap GUILD_IDS # {}
    /\ GUILD_IDS = {} => \A i \in 1..Len(log) : ~log[i].sent

\* a pass ended that notified a member and passed over a matching recipient
\* who could be found and messaged but is in no configured guild
C15_Witness ==
    /\ pc = "done"
    /\ GUILD_IDS # {}
    /\ \E i \in 1..Len(log) : log[i].sent
    /\ \E i \in 1..Len(log) :
          /\ ~log[i].sent
          /\ log[i].sit.found
          /\ log[i].sit.ok
          /\ log[i].sit.guilds # {}
          /\ log[i].sit.guilds \cap GUILD_IDS = {}
          /\ InList(log[i].uid, DictGet(charters, veal))

\* the lookup or the send of the recipient in situation sit raises
Fails(sit) ==
    \/ ~sit.found
    \/ sit.guilds \cap GUILD_IDS # {} /\ ~sit.ok

\* the date arithmetic of an accepted row from row j on overflows
Overflows(j) ==
    \E n \in j..Len(rows) :
       /\ RowAccepted(variant, rows[n])
       /\ TargetOrdinal(RowDate(rows[n])) - 21 < 1

\* C16: the step in which a lookup or a send fails goes on to the next
\* recipient, row or milestone, or to the final save (it ends the pass
\* without the save only on the date overflow of a later row); and in a
\* pass that ended with its save, every row and milestone whose recipients
\* the pass began to handle has had all of them handled, every due row the
\* pass accepts has its key marked, and the ledger file holds the ledger of
\* the pass.
C16_RecipientFailureDoesNotAbort ==
    /\ [][(Handled /\ Fails(Last(log').sit))
             => \/ pc' = "sending"
                   /\ \/ ri' = ri /\ mi' = mi /\ todo' = Tail(todo)
                      \/ ri' = ri /\ mi' > mi /\ Len(todo) = 1
                      \/ ri' > ri /\ Len(todo) = 1
                \/ pc' = "done" /\ Len(todo) = 1
                \/ pc' = "failed" /\ Len(todo) = 1 /\ Overflows(ri)]_vars
    /\ [](pc = "done"
            => /\ LedgerOnDisk = notified
               /\ \A i \in 1..Len(log) :
                     \A dm \in {DiffMap(rows[log[i].ri], charters)} :
                         \A n \in 1..Len(dm) :
                            \E i2 \in 1..Len(log) :
                               /\ log[i2].ri = log[i].ri
                               /\ log[i2].mi = log[i].mi
                               /\ log[i2].uid = dm[n][1]
               /\ \A j \in 1..Len(rows) : \A m \in 1..Len(LEADS) :
                     ( /\ RowAccepted(variant, rows[j])
                       /\ DiffMap(rows[j], charters) # <<>>
                       /\ TargetOrdinal(RowDate(rows[j])) - LEADS[m].days = today )
                        => DictHas(notified, RowKey(rows[j], m)))

\* a pass ended with its save after a lookup or a send had failed, and it
\* notified a recipient that came after the failure
C16_Witness ==
    /\ pc = "done"
    /\ LedgerOnDisk = notified
    /\ \E i \in 1..Len(log) : \E i2 \in 1..Len(log) :
          /\ i < i2
          /\ Fails(log[i].sit)
          /\ log[i2].sent
          /\ log[i2].ri > log[i].ri
    /\ \E i \in 1..Len(log) : \E i2 \in 1..Len(log) :
          /\ i < i2
          /\ Fails(log[i].sit)
          /\ log[i2].sent
          /\ log[i2].ri = log[i].ri

\* C17 as claimed: a row in none of whose slots a registered alias occurs
\* leaves no trace: every key a pass adds to its ledger is the key of a row
\* of the fetch in which some registered alias occurs.
C17_UnmatchedRowLeavesNoTrace ==
    \A k \in DictKeys(notified) \ DictKeys(loaded) :
       \E j \in 1..Len(rows) : \E m \in 1..Len(LEADS) :
          /\ rows[j].dict
          /\ k = RowKey(rows[j], m)
          /\ Matched(rows[j], charters) # {}

\* the registry reg holds the identity u under the name n
Holds(reg, n, u) == DictHas(reg, n) /\ InList(u, DictGet(reg, n))

\* a registry command ran in this step
Edited == edits' # edits

\* C18: every registry command works on the registry file as the command
\* before it left it, and leaves the file holding exactly the pairs it held
\* plus the added pair or minus the removed one (a command that ended with
\* an exception leaves the pairs as they were); so the file always holds the
\* outcome of the commands applied one after the other and no edit is lost.
C18_NoEditIsLost ==
    [][Edited
         => \A e \in {Last(edits')} :
            \A old \in {RegistryOnDisk} : \A new \in {RegistryOnDisk'} :
                /\ e.before = old
                /\ \A n \in NAMES : \A u \in UIDS :
                      Holds(new, n, u)
                         <=> \/ ~e.raised /\ e.op = "add" /\ n = e.name /\ u = e.uid
                             \/ /\ Holds(old, n, u)
                                /\ ~(e.op = "remove" /\ n = e.name /\ u = e.uid)]_vars

\* two commands in a row each added a pair under a different name, and the
\* file holds both
C18_Witness ==
    /\ Len(edits) = 2
    /\ edits[1].op = "add" /\ edits[1].changed
    /\ edits[2].op = "add" /\ edits[2].changed
    /\ edits[1].name # edits[2].name
    /\ edits[1].cmd # edits[2].cmd
    /\ Holds(RegistryOnDisk, edits[1].name, edits[1].uid)
    /\ Holds(RegistryOnDisk, edits[2].name, edits[2].uid)

\* C19 as claimed: the step of a pass that saves the ledger is the step that
\* loaded it; no suspension lies between the load and the save.
C19_LedgerStepUninterrupted ==
    [][(pc' = "done" /\ pc # "done") => pc = "fetching"]_vars

\* C19 amended: the pass loads the ledger in the step in which its fetch
\* returns and saves it in the step that ends the pass; the suspensions of
\* the recipient loop lie in between, but no step taken at them changes the
\* content of the ledger file, and the pass saves the ledger it loaded with
\* the keys it marked added under the date of the pass.
C19_LedgerLoadedOnceSavedOnce ==
    /\ [][(pc = "fetching" /\ pc' \in {"sending", "done"})
             => loaded' = LedgerOnDisk]_vars
    /\ [][(pc = "sending" /\ pc' = "sending")
             => (LedgerOnDisk' = LedgerOnDisk /\ LedgerOnDisk = loaded)]_vars
    /\ [][(pc' = "done" /\ pc # "done")
             => /\ pc \in {"fetching", "sending"}
                /\ LedgerOnDisk' = notified'
                /\ pc = "sending" => LedgerOnDisk = loaded]_vars
    /\ [](pc = "done"
            => /\ LedgerOnDisk = notified
               /\ \A k \in DictKeys(loaded) :
                     DictHas(notified, k) /\ DictGet(notified, k) = DictGet(loaded, k)
               /\ \A k \in DictKeys(notified) \ DictKeys(loaded) :
                     /\ DictGet(notified, k) = IsoFormat(today)
                     /\ \E j \in 1..Len(rows) : \E m \in 1..Len(LEADS) :
                           k = RowKey(rows[j], m))

\* a pass saved its ledger after it had handled two recipients, in a
\* behaviour in which the ready event fired again and an on-demand request
\* was served
C19_Witness ==
    /\ pc = "done"
    /\ readies = 2
    /\ req.reply = "dm_sent"
    /\ Len(log) = 2
    /\ loaded = <<>>
    /\ LedgerOnDisk = notified
    /\ notified # <<>>

\* the slots under which the periodic form would notify uid of the row r:
\* the entry of uid in the row's diff_map, if the row passes the filters
PeriodicSlots(r, ch, uid) ==
    LET dm == IF RowAccepted(variant, r) THEN DiffMap(r, ch) ELSE <<>>
    IN  IF DictHas(dm, uid) THEN DictGet(dm, uid) ELSE {}

\* the slots under which the on-demand result lists row j
ListedSlots(j) ==
    UNION {{req.fields[n].diffs[d] : d \in 1..Len(req.fields[n].diffs)} :
              n \in {x \in 1..Len(req.fields) : req.fields[x].ri = j}}

\* C20 as claimed: once an on-demand request has its rows and has gone
\* through them, the rows it lists with their slots are exactly the rows for
\* which the periodic pass's recipient map holds the requester, with the
\* same slots.
C20_BothFormsSelectAlike ==
    (req.got = "ok" /\ req.pc # "raised")
       => \A j \in 1..Len(sheet) :
             ListedSlots(j) = PeriodicSlots(sheet[j], req.reg, req.uid)


\* C21 as claimed: a /deadline request whose sheet fetch failed sends no
\* direct message and is never answered with "no assigned tasks".
C21_FetchFailureNotZeroTasks ==
    req.got = "fail"
       => /\ req.pc # "sending"
          /\ req.reply \notin {"no_tasks", "dm_sent", "dm_failed"}


\* no identity occurs twice in the list l
NoRepeat(l) == \A i \in 1..Len(l) : \A j \in 1..Len(l) : l[i] = l[j] => i = j

\* C22: whatever registry commands have run, every name of the registry file
\* holds a non-empty list of identities without repetition, and a command
\* takes a name out of the registry exactly when it is a remove of the only
\* identity left under that name.
C22_RegistryWellFormed ==
    /\ [](\A reg \in {RegistryOnDisk} : \A n \in DictKeys(reg) :
             /\ DictGet(reg, n) # <<>>
             /\ NoRepeat(DictGet(reg, n)))
    /\ [][\A old \in {RegistryOnDisk} : \A new \in {RegistryOnDisk'} :
          \A n \in NAMES :
             (DictHas(old, n) /\ ~DictHas(new, n))
                <=> /\ Edited
                    /\ Last(edits').op = "remove"
                    /\ Last(edits').name = n
                    /\ DictHas(old, n)
                    /\ DictGet(old, n) = <<Last(edits').uid>>]_vars

\* a remove took one of the two identities from under a name, which stayed;
\* the next remove took the other, and the name went with it
C22_Witness ==
    /\ Len(edits) = 2
    /\ edits[1].op = "remove" /\ edits[1].changed
    /\ edits[2].op = "remove" /\ edits[2].changed
    /\ edits[1].name = edits[2].name
    /\ Len(DictGet(edits[1].before, edits[1].name)) = 2
    /\ DictHas(edits[2].before, edits[2].name)
    /\ ~DictHas(RegistryOnDisk, edits[2].name)


\* C23 as claimed: once a pass is over, however it ended (abandoned on a
\* failed fetch, ended by an exception, or saved), and another day of the
\* schedule is left, the next pass is eventually started.
C23_ScheduleNeverStops ==
    (up /\ pc \in {"skipped", "done", "failed"} /\ clock < Day0 + MaxDay)
       ~> (pc = "fetching")


\* rows i < j of the fetch with the same title and the same date string, both
\* in progress, whose milestone m falls on the day of the pass
Twins(i, j, m) ==
    /\ i < j
    /\ rows[i].title = rows[j].title
    /\ RowDate(rows[i]) = RowDate(rows[j])
    /\ Legit(rows[i])
    /\ Legit(rows[j])
    /\ TargetOrdinal(RowDate(rows[i])) - LEADS[m].days = today

\* C24 as claimed: of two rows of a fetch with the same title and date
\* string that are both due, no pass messages a recipient of the second:
\* no message of a pass is for a row that has such a row before it.
C24_SecondTwinNeverMessaged ==
    \A n \in 1..Len(log) :
       log[n].sent
          => \A i \in 1..Len(rows) : ~Twins(i, log[n].ri, log[n].mi)

\* C24 amended: of two rows of a fetch with the same title and date string
\* that are both due, and in the first of which a registered alias occurs,
\* no pass messages a recipient of the second: no message of a pass is for
\* a row that has such a row before it.
C24_SecondTwinOfMatchedNeverMessaged ==
    \A n \in 1..Len(log) :
       log[n].sent
          => \A i \in 1..Len(rows) :
                ~(Twins(i, log[n].ri, log[n].mi) /\ Matched(rows[i], charters) # {})

\* a pass ended with its save after it had messaged a recipient of the first
\* of two such rows and passed over the second, in which an alias occurs too
C24_Witness ==
    /\ pc = "done"
    /\ \E i \in 1..Len(rows) : \E j \in 1..Len(rows) : \E m \in 1..Len(LEADS) :
          /\ Twins(i, j, m)
          /\ rows[i] # rows[j]
          /\ Matched(rows[j], charters) # {}
          /\ \E n \in 1..Len(log) : log[n].ri = i /\ log[n].mi = m /\ log[n].sent
          /\ \A n \in 1..Len(log) : log[n].ri # j
          /\ DictHas(LedgerOnDisk, RowKey(rows[j], m))

====
